---- MODULE Spec2Model ----
(***************************************************************************)
(* A model of the peer-orchestration core of amnezia-cluster-api:          *)
(*   - AmneziaWG2Service (create_peer, delete_peer, IP allocation, the     *)
(*     regex-based editing of the tunnel configuration text),              *)
(*   - AmneziaWG2Connection / ContainerConnection (the execution channel), *)
(*   - AmneziaWG2ConfigGenerator (the vpn:// link codec).                  *)
(*                                                                         *)
(* Text is modelled as a sequence of tokens: a token is either a newline   *)
(* or the whole content of one line (a section header, a "key = value"     *)
(* line, or a "# key = value" comment line).  Concatenation and slicing    *)
(* of text are concatenation and slicing of token sequences, and the       *)
(* regular expressions of the source are evaluated on the tokens.          *)
(***************************************************************************)
EXTENDS Integers, Sequences, FiniteSets, TLC

(***************************************************************************)
(* Bounds of the model.                                                    *)
(***************************************************************************)
MaxOps == 2
MaxFailures == 1

(***************************************************************************)
(* Text tokens.                                                            *)
(***************************************************************************)
NL == [t |-> "nl", k |-> "", v |-> <<>>]
Hdr(name) == [t |-> "hdr", k |-> name, v |-> <<>>]
KV(key, val) == [t |-> "kv", k |-> key, v |-> val]
Cmt(key, val) == [t |-> "cmt", k |-> key, v |-> val]

Min(S) == CHOOSE x \in S : \A y \in S : x <= y
Max(S) == CHOOSE x \in S : \A y \in S : y <= x

\* str.strip(): leading and trailing whitespace (here: newlines) removed.
Strip(text) ==
    LET solid == {i \in 1..Len(text) : text[i] # NL}
    IN  IF solid = {} THEN <<>> ELSE SubSeq(text, Min(solid), Max(solid))

\* Python slice text[a:b] with 0-based a, b given here as 1-based [from, to).
Slice(text, from, to) == SubSeq(text, from, to - 1)

(***************************************************************************)
(* Regular-expression primitives on tokens (flags MULTILINE, DOTALL).      *)
(***************************************************************************)
\* "^": start of text or just after a newline.
LineStart(text, i) == i = 1 \/ (i >= 2 /\ i <= Len(text) + 1 /\ text[i - 1] = NL)

\* "\s*" taken greedily from i: the first position at or after i that is
\* not a newline (Len(text) + 1 when the newlines run to the end).
SkipWs(text, i) ==
    LET rest == {j \in i..Len(text) : text[j] # NL}
    IN  IF rest = {} THEN Len(text) + 1 ELSE Min(rest)

\* "$": end of text or just before a newline.
LineEnd(text, i) == i = Len(text) + 1 \/ (i >= 1 /\ i <= Len(text) /\ text[i] = NL)

\* "^\s*\[Peer\]\s*$" matches at i; the header is the token at SkipWs(text, i).
PeerHeaderAt(text, i) ==
    /\ LineStart(text, i)
    /\ SkipWs(text, i) <= Len(text)
    /\ text[SkipWs(text, i)] = Hdr("Peer")
    /\ LineEnd(text, SkipWs(text, i) + 1)

\* Lookahead "^\s*\[[^\]]+\]\s*$" at i: any section header.
AnyHeaderAt(text, i) ==
    /\ LineStart(text, i)
    /\ SkipWs(text, i) <= Len(text)
    /\ text[SkipWs(text, i)].t = "hdr"
    /\ LineEnd(text, SkipWs(text, i) + 1)

\* Position after "\[Peer\]\s*$" for the header at h: the greedy "\s*" gives
\* back the last newline when a line follows, so that "$" can match.
AfterHeader(text, h) ==
    LET r == SkipWs(text, h + 1)
    IN  IF r > Len(text) THEN Len(text) + 1 ELSE r - 1

\* ".*?(?=^\s*\[[^\]]+\]\s*$|\Z)" from p: the first position at or after p
\* where a section header starts a line, or the end of the text.
SectionEnd(text, p) ==
    Min({q \in p..(Len(text) + 1) : q = Len(text) + 1 \/ AnyHeaderAt(text, q)})

\* peer_section_pattern.finditer(text) from position pos: the matches as
\* <<start, end>> pairs, end exclusive, in text order.
RECURSIVE PeerSectionsFrom(_, _)
PeerSectionsFrom(text, pos) ==
    LET starts == {i \in pos..Len(text) : PeerHeaderAt(text, i)}
    IN  IF starts = {} THEN <<>>
        ELSE LET s == Min(starts)
                 e == SectionEnd(text, AfterHeader(text, SkipWs(text, s)))
             IN  <<(<<s, e>>)>> \o PeerSectionsFrom(text, e)

PeerSections(text) == PeerSectionsFrom(text, 1)

\* re.search(r"^\s*PublicKey\s*=\s*(\S+)\s*$", section, MULTILINE): the value
\* of the first PublicKey line of the section, <<>> when there is none.
SectionKey(section) ==
    LET hits == {i \in 1..Len(section) :
                    section[i].t = "kv" /\ section[i].k = "PublicKey"}
    IN  IF hits = {} THEN <<>> ELSE section[Min(hits)].v

\* AmneziaWG2Service._remove_peer_from_raw_config: the parts of the text kept
\* when every matched section whose key is public_key is cut out.
RECURSIVE RemoveParts(_, _, _, _)
RemoveParts(config, public_key, sections, last_index) ==
    IF sections = <<>> THEN Slice(config, last_index, Len(config) + 1)
    ELSE LET m == Head(sections)
             section == Slice(config, m[1], m[2])
         IN  IF SectionKey(section) # <<public_key>>
             THEN RemoveParts(config, public_key, Tail(sections), last_index)
             ELSE Slice(config, last_index, m[1])
                    \o RemoveParts(config, public_key, Tail(sections), m[2])

RemovedAny(config, public_key) ==
    \E n \in 1..Len(PeerSections(config)) :
        LET m == PeerSections(config)[n]
        IN  SectionKey(Slice(config, m[1], m[2])) = <<public_key>>

\* A faulty removal that cuts only the first section of the key;
\* C5_DeleteRemovesAll fails with it.
RemovePeerFromRawConfig_First(config, public_key) ==
    LET sections == PeerSections(config)
        found == {n \in 1..Len(sections) :
                    SectionKey(Slice(config, sections[n][1], sections[n][2])) = <<public_key>>}
    IN  IF found = {} THEN config
        ELSE RemoveParts(config, public_key, <<sections[Min(found)]>>, 1)

RemovePeerFromRawConfig(config, public_key) ==
    IF ~RemovedAny(config, public_key) THEN config
    ELSE RemoveParts(config, public_key, PeerSections(config), 1)

\* A faulty section text without the application-type comment;
\* C21_CreateAppendsOneSection fails with it.
PeerSectionText_NoAppType(public_key, psk, allowed_ip, app_type) ==
    << NL, Hdr("Peer"), NL,
       KV("PublicKey", <<public_key>>), NL,
       KV("PresharedKey", <<psk>>), NL,
       KV("AllowedIPs", <<allowed_ip>>), NL >>

\* The peer section text of AmneziaWG2Service._add_peer_to_config.
PeerSectionText(public_key, psk, allowed_ip, app_type) ==
    << NL, Hdr("Peer"), NL,
       Cmt("AppType", <<app_type>>), NL,
       KV("PublicKey", <<public_key>>), NL,
       KV("PresharedKey", <<psk>>), NL,
       KV("AllowedIPs", <<allowed_ip>>), NL >>

(***************************************************************************)
(* IPv4 arithmetic (the ipaddress module).  An address is a 32-bit number, *)
(* a CIDR string "a.b.c.d/n" is the pair <<address, n>>, and an address    *)
(* string without "/n" is the pair <<address, NoPrefix>>.                  *)
(***************************************************************************)
IPv4(a, b, c, d) == ((a * 256 + b) * 256 + c) * 256 + d
NoPrefix == 0 - 1

RECURSIVE Pow2(_)
Pow2(n) == IF n = 0 THEN 1 ELSE 2 * Pow2(n - 1)

\* ipaddress.IPv4Network(cidr, strict=False): host bits are masked off.
NetworkSize(cidr) == Pow2(32 - cidr[2])
NetworkAddress(cidr) == cidr[1] - (cidr[1] % NetworkSize(cidr))
BroadcastAddress(cidr) == NetworkAddress(cidr) + NetworkSize(cidr) - 1

\* IPv4Network.hosts(): every address but the network and the broadcast
\* address; both addresses of a /31; the single address of a /32.
FirstHost(cidr) ==
    IF cidr[2] >= 31 THEN NetworkAddress(cidr) ELSE NetworkAddress(cidr) + 1
LastHost(cidr) ==
    IF cidr[2] >= 31 THEN BroadcastAddress(cidr) ELSE BroadcastAddress(cidr) - 1

\* re.search(r"Address\s*=\s*([\d\.]+/\d+)", wg_config): the first line of the
\* text, commented or not, that assigns a CIDR to Address; <<>> when none.
FindSubnet(wg_config) ==
    LET hits == {i \in 1..Len(wg_config) :
                    /\ wg_config[i].t \in {"kv", "cmt"}
                    /\ wg_config[i].k = "Address"
                    /\ Len(wg_config[i].v) = 2
                    /\ wg_config[i].v[2] # NoPrefix}
    IN  IF hits = {} THEN <<>> ELSE wg_config[Min(hits)].v

\* re.search(r"\[Interface\][\s\S]*?ListenPort\s*=\s*(\d+)", wg_config,
\* IGNORECASE): the first ListenPort assignment after the first [Interface]
\* header; 0 when there is none.
FindListenPort(wg_config) ==
    LET heads == {i \in 1..Len(wg_config) : wg_config[i] = Hdr("Interface")}
        ports == {j \in 1..Len(wg_config) :
                    /\ wg_config[j].t \in {"kv", "cmt"}
                    /\ wg_config[j].k = "ListenPort"
                    /\ heads # {} /\ j > Min(heads)}
    IN  IF ports = {} THEN 0 ELSE wg_config[Min(ports)].v[1]

(***************************************************************************)
(* The tunnel daemon.  Its peers are a sequence of [pk, ips] records; the  *)
(* dump has one interface line and one row of 8 fields per peer.  The      *)
(* peers of the service specification carry no traffic, so the dump parser *)
(* never reads the clock there (now2 = 0).                                 *)
(***************************************************************************)
\* The peers that "wg-quick strip | wg syncconf" derives from the file: one
\* per [Peer] section with a PublicKey, the AllowedIPs of its last section.
RECURSIVE FilePeersFrom(_, _, _)
FilePeersFrom(text, i, cur) ==
    LET flush == IF cur.on /\ cur.pk # <<>> THEN <<[pk |-> cur.pk[1], ips |-> cur.ips]>>
                 ELSE <<>>
    IN  IF i > Len(text) THEN flush
        ELSE IF text[i].t = "hdr"
             THEN flush \o FilePeersFrom(text, i + 1,
                             [on |-> text[i].k = "Peer", pk |-> <<>>, ips |-> <<>>])
        ELSE IF text[i].t = "kv" /\ text[i].k = "PublicKey"
             THEN FilePeersFrom(text, i + 1, [cur EXCEPT !.pk = text[i].v])
        ELSE IF text[i].t = "kv" /\ text[i].k = "AllowedIPs"
             THEN FilePeersFrom(text, i + 1, [cur EXCEPT !.ips = cur.ips \o text[i].v])
        ELSE FilePeersFrom(text, i + 1, cur)

FilePeers(text) == FilePeersFrom(text, 1, [on |-> FALSE, pk |-> <<>>, ips |-> <<>>])

\* A later section with the same key replaces the earlier one.
RECURSIVE LastOfEachKey(_, _)
LastOfEachKey(all, i) ==
    IF i > Len(all) THEN <<>>
    ELSE IF \E j \in (i + 1)..Len(all) : all[j].pk = all[i].pk
         THEN LastOfEachKey(all, i + 1)
         ELSE <<all[i]>> \o LastOfEachKey(all, i + 1)

SyncedPeers(text) == LastOfEachKey(FilePeers(text), 1)

\* "wg show <interface> dump": each line is the sequence of its tab-separated
\* fields.  The interface line has 4 fields; a peer row has the 8 fields
\* public key, preshared key, endpoint, allowed ips, latest handshake,
\* received bytes, sent bytes, persistent keepalive.  Text fields are
\* character sequences.  A peer without traffic has no endpoint and no
\* handshake.
DumpRows(peers) ==
    << <<0, 0, <<"5", "1", "8", "2", "0">>, <<"o", "f", "f">> >> >>
        \o [i \in 1..Len(peers) |->
                << peers[i].pk, 0, <<"(", "n", "o", "n", "e", ")">>, peers[i].ips,
                   <<"0">>, <<"0">>, <<"0">>, <<"o", "f", "f">> >>]

\* int(text) of a decimal field.
RECURSIVE ToInt(_)
ToInt(s) ==
    IF s = <<>> THEN 0
    ELSE 10 * ToInt(SubSeq(s, 1, Len(s) - 1))
            + ((CHOOSE d \in 1..10 :
                    <<"0", "1", "2", "3", "4", "5", "6", "7", "8", "9">>[d] = s[Len(s)]) - 1)

\* settings.peer_online_threshold_seconds.
PeerOnlineThresholdSeconds == 180

\* datetime.fromtimestamp(ts): the naive local time of a Unix timestamp,
\* in seconds, in a zone that is utcoffset seconds ahead of UTC.
FromTimestamp(ts, utcoffset) == ts + utcoffset

\* A faulty comparison that counts a handshake exactly one threshold old as
\* online; C18_OnlineBelowThreshold fails with it.
Online_Inclusive(last_handshake_ts, now2, utcoffset) ==
    IF last_handshake_ts = <<>> THEN FALSE
    ELSE now2 - 2 * FromTimestamp(last_handshake_ts[1], utcoffset)
            <= 2 * PeerOnlineThresholdSeconds

\* The online flag of _parse_wg_dump: (datetime.now() - last_handshake)
\* .total_seconds() < threshold, FALSE without a handshake.  now2 is
\* datetime.now(), naive local time, in half seconds.
Online(last_handshake_ts, now2, utcoffset) ==
    IF last_handshake_ts = <<>> THEN FALSE
    ELSE now2 - 2 * FromTimestamp(last_handshake_ts[1], utcoffset)
            < 2 * PeerOnlineThresholdSeconds

\* A faulty selection that parses the first line too; C19_RowHandling fails
\* with it.
ParsedRows_FromFirst(rows) == {i \in 1..Len(rows) : Len(rows[i]) >= 8}

\* The lines _parse_wg_dump makes records of: lines[1:] with 8 fields or more.
ParsedRows(rows) == {i \in 2..Len(rows) : Len(rows[i]) >= 8}

\* AmneziaWG2Service._parse_wg_dump: the first line is dropped, rows of
\* fewer than 8 fields are skipped, the rest are keyed by public key (a
\* later row replaces an earlier one with the same key).  None is <<>> and
\* a value x is <<x>>.
ParseWgDump(rows, now2, utcoffset) ==
    LET good == ParsedRows(rows)
        record(parts) ==
            LET last_handshake_ts ==
                    IF parts[5] # <<"0">> /\ ToInt(parts[5]) # 0
                    THEN <<ToInt(parts[5])>> ELSE <<>>
            IN  [endpoint |-> IF parts[3] # <<"(", "n", "o", "n", "e", ")">>
                              THEN <<parts[3]>> ELSE <<>>,
                 allowed_ips |-> parts[4],
                 last_handshake |-> last_handshake_ts,
                 rx_bytes |-> ToInt(parts[6]),
                 tx_bytes |-> ToInt(parts[7]),
                 online |-> Online(last_handshake_ts, now2, utcoffset),
                 persistent_keepalive |-> IF parts[8] # <<"o", "f", "f">>
                                          THEN ToInt(parts[8]) ELSE 0]
    IN  [pk \in {rows[i][1] : i \in good} |->
            record(rows[Max({i \in good : rows[i][1] = pk})])]

\* The used set of AmneziaWG2Service._allocate_ip_address: the address part
\* of every allowed-ips entry of the dump that contains a "/".
UsedIps(peers) ==
    UNION {{peers[pk].allowed_ips[n][1] :
                n \in {m \in 1..Len(peers[pk].allowed_ips) :
                            peers[pk].allowed_ips[m][2] # NoPrefix}} :
            pk \in DOMAIN peers}

\* A faulty loop that does not skip network_address + 1; C6_LowestFreeHost
\* fails with it.
RECURSIVE FirstFree_NoReserved(_, _, _, _)
FirstFree_NoReserved(ip, last, used_ips, reserved) ==
    IF ip > last THEN <<>>
    ELSE IF ip \notin used_ips THEN <<ip, 32>>
    ELSE FirstFree_NoReserved(ip + 1, last, used_ips, reserved)

\* A faulty loop that hands out only addresses above every used one;
\* C28_SequentialAddresses fails with it.
FirstFree_AboveUsed(ip, last, used_ips, reserved) ==
    LET free == {a \in ip..last :
                    a \notin used_ips /\ a # reserved /\ \A u \in used_ips : a > u}
    IN  IF free = {} THEN <<>> ELSE <<Min(free), 32>>

\* The loop of _allocate_ip_address over network.hosts() in ascending order:
\* the first address that is neither used nor network_address + 1, as the
\* string "<ip>/32"; <<>> stands for the ValueError of an exhausted subnet.
RECURSIVE FirstFree(_, _, _, _)
FirstFree(ip, last, used_ips, reserved) ==
    IF ip > last THEN <<>>
    ELSE IF ip \notin used_ips /\ ip # reserved THEN <<ip, 32>>
    ELSE FirstFree(ip + 1, last, used_ips, reserved)

\* A faulty allocator that leaves out the last host of the subnet;
\* C7_SucceedsBelowNMinus3 fails with it.
AllocateIpAddress_ShortRange(network, peers) ==
    FirstFree(FirstHost(network), LastHost(network) - 1, UsedIps(peers),
              NetworkAddress(network) + 1)

\* A faulty allocator that hands out the first host when every other host
\* is taken; C13_ExhaustionIsTerminal fails with it.
AllocateIpAddress_FallsBack(network, peers) ==
    LET ip == FirstFree(FirstHost(network), LastHost(network), UsedIps(peers),
                        NetworkAddress(network) + 1)
    IN  IF ip = <<>> THEN <<FirstHost(network), 32>> ELSE ip

AllocateIpAddress(network, peers) ==
    FirstFree(FirstHost(network), LastHost(network), UsedIps(peers),
              NetworkAddress(network) + 1)

\* str(value).strip().lower() on the application-type strings of the model.
StripLower(app_type) ==
    CASE app_type = "AmneziaWG" -> "amneziawg"
      [] app_type = " VPN " -> "vpn"
      [] OTHER -> app_type

\* A faulty normalisation that takes every unknown name for the default
\* type; C12_UnknownAppTypeRejected fails with it.
NormalizeAppType_Default(app_type) ==
    IF StripLower(app_type) \in {"amnezia_vpn", "vpn"} THEN "amnezia_vpn"
    ELSE "amnezia_wg"

\* AmneziaWG2Service._normalize_app_type; "" stands for the ValueError.
NormalizeAppType(app_type) ==
    IF StripLower(app_type) \in {"amnezia_vpn", "vpn"} THEN "amnezia_vpn"
    ELSE IF StripLower(app_type) \in {"amnezia_wg", "wg", "amneziawg"} THEN "amnezia_wg"
    ELSE ""

(***************************************************************************)
(* The vpn:// link codec (AmneziaWG2ConfigGenerator).  JSON text and links *)
(* are sequences of one-character strings, binary data are sequences of    *)
(* bytes (0..255).                                                         *)
(***************************************************************************)
\* The printable ASCII characters, code 32 first ("grave" holds the place of
\* the grave accent, code 96, which no text of the model contains).
Printable ==
 <<
    " ", "!", "\"", "#", "$", "%", "&", "'", "(", ")", "*", "+", ",", "-",
    ".", "/", "0", "1", "2", "3", "4", "5", "6", "7", "8", "9", ":", ";",
    "<", "=", ">", "?", "@", "A", "B", "C", "D", "E", "F", "G", "H", "I",
    "J", "K", "L", "M", "N", "O", "P", "Q", "R", "S", "T", "U", "V", "W",
    "X", "Y", "Z", "[", "\\", "]", "^", "_", "grave", "a", "b", "c", "d", "e",
    "f", "g", "h", "i", "j", "k", "l", "m", "n", "o", "p", "q", "r", "s",
    "t", "u", "v", "w", "x", "y", "z", "{", "|", "}", "~"
 >>

Ord(c) == IF c = "\n" THEN 10 ELSE 31 + (CHOOSE i \in 1..Len(Printable) : Printable[i] = c)
Chr(b) == IF b = 10 THEN "\n" ELSE Printable[b - 31]

\* The URL-safe base64 alphabet, sextet 0 first.
UrlSafeAlphabet ==
 <<
    "A", "B", "C", "D", "E", "F", "G", "H", "I", "J", "K", "L", "M", "N",
    "O", "P", "Q", "R", "S", "T", "U", "V", "W", "X", "Y", "Z", "a", "b",
    "c", "d", "e", "f", "g", "h", "i", "j", "k", "l", "m", "n", "o", "p",
    "q", "r", "s", "t", "u", "v", "w", "x", "y", "z", "0", "1", "2", "3",
    "4", "5", "6", "7", "8", "9", "-", "_"
 >>

\* JSON values.  An object is a sequence of <<key, value>> pairs in insertion
\* order, a key and a string are sequences of characters.
JStr(s) == [ty |-> "str", s |-> s, n |-> 0, items |-> <<>>]
JInt(n) == [ty |-> "int", s |-> <<>>, n |-> n, items |-> <<>>]
JList(items) == [ty |-> "list", s |-> <<>>, n |-> 0, items |-> items]
JObj(pairs) == [ty |-> "obj", s |-> <<>>, n |-> 0, items |-> pairs]

\* The concatenation of the sequences parts[lo..hi], by halves.
RECURSIVE FlattenRange(_, _, _)
FlattenRange(parts, lo, hi) ==
    IF lo > hi THEN <<>>
    ELSE IF lo = hi THEN parts[lo]
    ELSE FlattenRange(parts, lo, (lo + hi) \div 2)
            \o FlattenRange(parts, (lo + hi) \div 2 + 1, hi)

Flatten(parts) == FlattenRange(parts, 1, Len(parts))

Spaces(n) == [i \in 1..n |-> " "]

DigitChars == <<"0", "1", "2", "3", "4", "5", "6", "7", "8", "9">>

RECURSIVE NatToChars(_)
NatToChars(n) ==
    IF n < 10 THEN <<DigitChars[n + 1]>>
    ELSE NatToChars(n \div 10) \o <<DigitChars[(n % 10) + 1]>>

IntToChars(n) == IF n < 0 THEN <<"-">> \o NatToChars(0 - n) ELSE NatToChars(n)

\* A faulty EscapeChar that escapes nothing; C1_RoundTrip fails with it.
EscapeChar_Plain(c) == <<c>>

\* json.encoder: the escapes of a string (ASCII text).
EscapeChar(c) ==
    CASE c = "\"" -> <<"\\", "\"">>
      [] c = "\\" -> <<"\\", "\\">>
      [] c = "\n" -> <<"\\", "n">>
      [] OTHER -> <<c>>

EscapeString(s) == Flatten([i \in 1..Len(s) |-> EscapeChar(s[i])])

\* json.dumps(value, indent=4), at nesting depth level.
RECURSIVE Dumps(_, _)
RECURSIVE DumpsItems(_, _, _, _)
Dumps(v, level) ==
    CASE v.ty = "str" -> <<"\"">> \o EscapeString(v.s) \o <<"\"">>
      [] v.ty = "int" -> IntToChars(v.n)
      [] v.ty = "list" ->
            IF v.items = <<>> THEN <<"[", "]">>
            ELSE <<"[">> \o DumpsItems(v.items, 1, level + 1, FALSE)
                    \o <<"\n">> \o Spaces(4 * level) \o <<"]">>
      [] v.ty = "obj" ->
            IF v.items = <<>> THEN <<"{", "}">>
            ELSE <<"{">> \o DumpsItems(v.items, 1, level + 1, TRUE)
                    \o <<"\n">> \o Spaces(4 * level) \o <<"}">>

DumpsItems(items, n, level, keyed) ==
    IF n > Len(items) THEN <<>>
    ELSE (IF n > 1 THEN <<",">> ELSE <<>>) \o <<"\n">> \o Spaces(4 * level)
            \o (IF keyed
                THEN <<"\"">> \o EscapeString(items[n][1]) \o <<"\"", ":", " ">>
                        \o Dumps(items[n][2], level)
                ELSE Dumps(items[n], level))
            \o DumpsItems(items, n + 1, level, keyed)

\* json.loads.  A parse result is [ok, val, pos]: pos is the position after
\* the value; ok = FALSE stands for JSONDecodeError.
ParseFail == [ok |-> FALSE, val |-> JInt(0), pos |-> 0]
Parsed(v, p) == [ok |-> TRUE, val |-> v, pos |-> p]

JsonSpace == {" ", "\n"}

RECURSIVE SkipSpace(_, _)
SkipSpace(t, p) ==
    IF p <= Len(t) /\ t[p] \in JsonSpace THEN SkipSpace(t, p + 1) ELSE p

At(t, p) == IF p >= 1 /\ p <= Len(t) THEN t[p] ELSE ""

DigitOf(c) == (CHOOSE i \in 1..10 : DigitChars[i] = c) - 1
IsDigit(c) == \E i \in 1..10 : DigitChars[i] = c

\* The number of backslashes that end right before position j, counted back
\* to position p.
RECURSIVE BackslashRun(_, _, _)
BackslashRun(t, p, j) ==
    IF j > p /\ t[j - 1] = "\\" THEN 1 + BackslashRun(t, p, j - 1) ELSE 0

Escaped(t, p, j) == BackslashRun(t, p, j) % 2 = 1

\* json.decoder.py_scanstring from position p, after the opening quote: the
\* string ends at the first quote that is not escaped; a raw control
\* character or an unknown escape is an error.  The escapes modelled are the
\* ones of EscapeChar and "\/".
ParseString(t, p, acc) ==
    LET closes == {j \in p..Len(t) : t[j] = "\"" /\ ~Escaped(t, p, j)}
        close == CHOOSE j \in closes : \A k \in closes : j <= k
        piece(j) ==
            IF Escaped(t, p, j) THEN <<(IF t[j] = "n" THEN "\n" ELSE t[j])>>
            ELSE IF t[j] = "\\" THEN <<>>
            ELSE <<t[j]>>
        bad(j) ==
            IF Escaped(t, p, j) THEN t[j] \notin {"n", "\"", "\\", "/"}
            ELSE t[j] = "\n"
    IN  IF closes = {} THEN ParseFail
        ELSE IF \E j \in p..(close - 1) : bad(j) THEN ParseFail
        ELSE Parsed(JStr(acc \o Flatten([k \in 1..(close - p) |-> piece(p + k - 1)])),
                    close + 1)

RECURSIVE ParseDigits(_, _, _)
ParseDigits(t, p, acc) ==
    IF IsDigit(At(t, p)) THEN ParseDigits(t, p + 1, 10 * acc + DigitOf(t[p]))
    ELSE Parsed(JInt(acc), p)

ParseNumber(t, p) ==
    IF t[p] = "-"
    THEN IF IsDigit(At(t, p + 1))
         THEN LET r == ParseDigits(t, p + 1, 0) IN Parsed(JInt(0 - r.val.n), r.pos)
         ELSE ParseFail
    ELSE ParseDigits(t, p, 0)

RECURSIVE ParseValue(_, _)
RECURSIVE ParseElements(_, _, _)
RECURSIVE ParseMembers(_, _, _)
ParseValue(t, p) ==
    LET q == SkipSpace(t, p)
    IN  IF q > Len(t) THEN ParseFail
        ELSE IF t[q] = "\"" THEN ParseString(t, q + 1, <<>>)
        ELSE IF t[q] = "-" \/ IsDigit(t[q]) THEN ParseNumber(t, q)
        ELSE IF t[q] = "["
             THEN IF At(t, SkipSpace(t, q + 1)) = "]"
                  THEN Parsed(JList(<<>>), SkipSpace(t, q + 1) + 1)
                  ELSE ParseElements(t, q + 1, <<>>)
        ELSE IF t[q] = "{"
             THEN IF At(t, SkipSpace(t, q + 1)) = "}"
                  THEN Parsed(JObj(<<>>), SkipSpace(t, q + 1) + 1)
                  ELSE ParseMembers(t, q + 1, <<>>)
        ELSE ParseFail

ParseElements(t, p, acc) ==
    LET r == ParseValue(t, p)
        s == SkipSpace(t, r.pos)
    IN  IF ~r.ok THEN ParseFail
        ELSE IF At(t, s) = "," THEN ParseElements(t, s + 1, Append(acc, r.val))
        ELSE IF At(t, s) = "]" THEN Parsed(JList(Append(acc, r.val)), s + 1)
        ELSE ParseFail

\* A later member with the same key replaces the earlier one (dict).
PutMember(pairs, key, val) ==
    IF \E n \in 1..Len(pairs) : pairs[n][1] = key
    THEN [n \in 1..Len(pairs) |-> IF pairs[n][1] = key THEN <<key, val>> ELSE pairs[n]]
    ELSE Append(pairs, <<key, val>>)

ParseMembers(t, p, acc) ==
    LET q == SkipSpace(t, p)
        k == IF At(t, q) = "\"" THEN ParseString(t, q + 1, <<>>) ELSE ParseFail
        c == SkipSpace(t, k.pos)
        r == IF k.ok /\ At(t, c) = ":" THEN ParseValue(t, c + 1) ELSE ParseFail
        s == SkipSpace(t, r.pos)
    IN  IF ~r.ok THEN ParseFail
        ELSE IF At(t, s) = "," THEN ParseMembers(t, s + 1, PutMember(acc, k.val.s, r.val))
        ELSE IF At(t, s) = "}" THEN Parsed(JObj(PutMember(acc, k.val.s, r.val)), s + 1)
        ELSE ParseFail

Loads(t) ==
    LET r == ParseValue(t, 1)
    IN  IF r.ok /\ SkipSpace(t, r.pos) = Len(t) + 1 THEN r ELSE ParseFail

\* str.encode("utf-8") and bytes.decode of ASCII text.
Utf8Encode(t) == [i \in 1..Len(t) |-> Ord(t[i])]
Utf8Decode(b) == [i \in 1..Len(b) |-> Chr(b[i])]

\* struct.pack(">I", n) and struct.unpack(">I", b)[0].
PackUInt32(n) ==
    << (n \div 16777216) % 256, (n \div 65536) % 256, (n \div 256) % 256, n % 256 >>
UnpackUInt32(b) == ((b[1] * 256 + b[2]) * 256 + b[3]) * 256 + b[4]

\* zlib, as a lossless run-length coding between the two header bytes of a
\* level-8 stream and the Adler-32 checksum of the uncompressed data.
RECURSIVE RunLength(_, _)
RunLength(data, i) ==
    IF i < Len(data) /\ data[i + 1] = data[i] THEN 1 + RunLength(data, i + 1) ELSE 1

RECURSIVE RunBack(_, _)
RunBack(data, i) ==
    IF i > 1 /\ data[i - 1] = data[i] THEN 1 + RunBack(data, i - 1) ELSE 0

\* One <<count, byte>> pair per run, a run being cut after 255 bytes.
Deflate(data) ==
    Flatten([i \in 1..Len(data) |->
                IF RunBack(data, i) % 255 = 0
                THEN <<Min({255, RunLength(data, i)}), data[i]>>
                ELSE <<>>])

Repeat(b, n) == [i \in 1..n |-> b]

Inflate(body) ==
    Flatten([k \in 1..(Len(body) \div 2) |-> Repeat(body[2 * k], body[2 * k - 1])])

\* The sum of w(i) * data[i] for i in lo..hi modulo 65521, by halves; w(i)
\* is 1 when weighted is FALSE and Len(data) - i + 1 otherwise.
RECURSIVE AdlerSum(_, _, _, _)
AdlerSum(data, lo, hi, weighted) ==
    IF lo > hi THEN 0
    ELSE IF lo = hi
         THEN ((IF weighted THEN Len(data) - lo + 1 ELSE 1) * data[lo]) % 65521
    ELSE (AdlerSum(data, lo, (lo + hi) \div 2, weighted)
            + AdlerSum(data, (lo + hi) \div 2 + 1, hi, weighted)) % 65521

\* Adler-32: a = 1 + the sum of the bytes, b = the sum of the values a takes,
\* both modulo 65521; the four bytes of b * 65536 + a.
Adler32(data) ==
    LET a == (1 + AdlerSum(data, 1, Len(data), FALSE)) % 65521
        b == (Len(data) + AdlerSum(data, 1, Len(data), TRUE)) % 65521
    IN  << b \div 256, b % 256, a \div 256, a % 256 >>

\* zlib.compress(data, level=8).
ZlibCompress(data) == <<120, 218>> \o Deflate(data) \o Adler32(data)

\* zlib.decompress(z): ok = FALSE stands for zlib.error.
ZlibDecompress(z) ==
    LET body == SubSeq(z, 3, Len(z) - 4)
        data == IF Len(body) % 2 = 0 THEN Inflate(body) ELSE <<>>
        wellFormed ==
            /\ Len(z) >= 6 /\ z[1] = 120 /\ z[2] = 218
            /\ Len(body) % 2 = 0
            /\ \A i \in 1..Len(body) : i % 2 = 1 => body[i] >= 1
    IN  IF wellFormed /\ Adler32(data) = SubSeq(z, Len(z) - 3, Len(z))
        THEN [ok |-> TRUE, data |-> data]
        ELSE [ok |-> FALSE, data |-> <<>>]

\* base64.urlsafe_b64encode.
Sextet(n) == UrlSafeAlphabet[n + 1]

ByteAt(b, i) == IF i <= Len(b) THEN b[i] ELSE 0

\* Three bytes give four characters; a last group of one or two bytes is
\* padded with "=".
UrlSafeB64Encode(b) ==
    [k \in 1..(4 * ((Len(b) + 2) \div 3)) |->
        LET g == 3 * ((k - 1) \div 4)
            x == ByteAt(b, g + 1)
            y == ByteAt(b, g + 2)
            z == ByteAt(b, g + 3)
        IN  CASE (k - 1) % 4 = 0 -> Sextet(x \div 4)
              [] (k - 1) % 4 = 1 -> Sextet((x % 4) * 16 + y \div 16)
              [] (k - 1) % 4 = 2 ->
                    IF g + 2 > Len(b) THEN "=" ELSE Sextet((y % 16) * 4 + z \div 64)
              [] OTHER -> IF g + 3 > Len(b) THEN "=" ELSE Sextet(z % 64)]

\* str.rstrip("=").
RStripPad(s) ==
    SubSeq(s, 1, CHOOSE i \in 0..Len(s) :
                    /\ i = 0 \/ s[i] # "="
                    /\ \A j \in (i + 1)..Len(s) : s[j] = "=")

\* base64.urlsafe_b64decode (not strict: characters outside the alphabet are
\* dropped); ok = FALSE stands for binascii.Error.
SextetOf(c) == (CHOOSE n \in 1..64 : UrlSafeAlphabet[n] = c) - 1
InAlphabet(c) == \E n \in 1..64 : UrlSafeAlphabet[n] = c

\* Four characters give three bytes; a last group of two or three characters
\* gives one or two.
B64DecodeQuads(d) ==
    [k \in 1..(3 * (Len(d) \div 4) + (IF Len(d) % 4 = 0 THEN 0 ELSE (Len(d) % 4) - 1)) |->
        LET q == 4 * ((k - 1) \div 3)
        IN  CASE (k - 1) % 3 = 0 -> SextetOf(d[q + 1]) * 4 + SextetOf(d[q + 2]) \div 16
              [] (k - 1) % 3 = 1 ->
                    (SextetOf(d[q + 2]) % 16) * 16 + SextetOf(d[q + 3]) \div 4
              [] OTHER -> (SextetOf(d[q + 3]) % 4) * 64 + SextetOf(d[q + 4])]

UrlSafeB64Decode(s) ==
    LET pads == {i \in 1..Len(s) : s[i] = "="}
        stop == IF pads = {} THEN Len(s) + 1 ELSE Min(pads)
        d == SelectSeq(SubSeq(s, 1, stop - 1), InAlphabet)
        npad == Cardinality(pads)
    IN  IF Len(d) % 4 = 1 \/ (Len(d) % 4 = 2 /\ npad < 2) \/ (Len(d) % 4 = 3 /\ npad < 1)
        THEN [ok |-> FALSE, data |-> <<>>]
        ELSE [ok |-> TRUE, data |-> B64DecodeQuads(d)]

\* str.replace(old, ""): every occurrence of old is removed, left to right.
RECURSIVE RemoveAll(_, _)
RemoveAll(s, old) ==
    LET found == {i \in 1..(Len(s) - Len(old) + 1) : SubSeq(s, i, i + Len(old) - 1) = old}
        first == CHOOSE i \in found : \A j \in found : i <= j
    IN  IF found = {} THEN s
        ELSE SubSeq(s, 1, first - 1) \o RemoveAll(SubSeq(s, first + Len(old), Len(s)), old)

Scheme == <<"v", "p", "n", ":", "/", "/">>

\* The link made of a length header and a body: base64url, no padding.
LinkOf(header, compressed_data) ==
    Scheme \o RStripPad(UrlSafeB64Encode(header \o compressed_data))

\* AmneziaWG2ConfigGenerator._create_vpn_link.
CreateVpnLink(data) ==
    LET json_str == Utf8Encode(Dumps(data, 0))
    IN  LinkOf(PackUInt32(Len(json_str)), ZlibCompress(json_str))

\* AmneziaWG2ConfigGenerator.decode_vpn_link: [err, val]; err = "" when the
\* config object val is returned, else the exception raised.
DecodeError(e) == [err |-> e, val |-> JInt(0)]

\* A faulty decoder without the length comparison; C2_TamperedHeaderRejected
\* fails with it.
DecodeVpnLink_NoLengthCheck(vpn_link) ==
    LET encoded_data == RemoveAll(vpn_link, Scheme)
        padding == 4 - (Len(encoded_data) % 4)
        padded == IF padding # 4 THEN encoded_data \o Repeat("=", padding) ELSE encoded_data
        compressed_data == UrlSafeB64Decode(padded)
        decompressed_data ==
            ZlibDecompress(SubSeq(compressed_data.data, 5, Len(compressed_data.data)))
        loaded == Loads(Utf8Decode(decompressed_data.data))
    IN  IF ~compressed_data.ok THEN DecodeError("binascii.Error")
        ELSE IF Len(compressed_data.data) < 4 THEN DecodeError("struct.error")
        ELSE IF ~decompressed_data.ok THEN DecodeError("zlib.error")
        ELSE IF ~loaded.ok THEN DecodeError("JSONDecodeError")
        ELSE [err |-> "", val |-> loaded.val]

DecodeVpnLink(vpn_link) ==
    LET encoded_data == RemoveAll(vpn_link, Scheme)
        padding == 4 - (Len(encoded_data) % 4)
        padded == IF padding # 4 THEN encoded_data \o Repeat("=", padding) ELSE encoded_data
        compressed_data == UrlSafeB64Decode(padded)
        original_data_len == UnpackUInt32(SubSeq(compressed_data.data, 1, 4))
        decompressed_data ==
            ZlibDecompress(SubSeq(compressed_data.data, 5, Len(compressed_data.data)))
        loaded == Loads(Utf8Decode(decompressed_data.data))
    IN  IF ~compressed_data.ok THEN DecodeError("binascii.Error")
        ELSE IF Len(compressed_data.data) < 4 THEN DecodeError("struct.error")
        ELSE IF ~decompressed_data.ok THEN DecodeError("zlib.error")
        ELSE IF Len(decompressed_data.data) # original_data_len THEN DecodeError("ValueError")
        ELSE IF ~loaded.ok THEN DecodeError("JSONDecodeError")
        ELSE [err |-> "", val |-> loaded.val]

\* The keys of the config object, as character sequences.
Key ==
    [ containers |-> <<"c", "o", "n", "t", "a", "i", "n", "e", "r", "s">>,
      awg |-> <<"a", "w", "g">>,
      H1 |-> <<"H", "1">>,
      Jc |-> <<"J", "c">>,
      last_config |-> <<"l", "a", "s", "t", "_", "c", "o", "n", "f", "i", "g">>,
      port |-> <<"p", "o", "r", "t">>,
      protocol_version |-> <<"p", "r", "o", "t", "o", "c", "o", "l", "_", "v", "e", "r", "s", "i", "o", "n">>,
      container |-> <<"c", "o", "n", "t", "a", "i", "n", "e", "r">>,
      defaultContainer |-> <<"d", "e", "f", "a", "u", "l", "t", "C", "o", "n", "t", "a", "i", "n", "e", "r">>,
      description |-> <<"d", "e", "s", "c", "r", "i", "p", "t", "i", "o", "n">>,
      dns1 |-> <<"d", "n", "s", "1">>,
      hostName |-> <<"h", "o", "s", "t", "N", "a", "m", "e">>,
      client_ip |-> <<"c", "l", "i", "e", "n", "t", "_", "i", "p">>,
      config |-> <<"c", "o", "n", "f", "i", "g">>,
      allowed_ips |-> <<"a", "l", "l", "o", "w", "e", "d", "_", "i", "p", "s">> ]

\* String and number values of the config objects of the model: keys, names,
\* a profile text with line breaks, text with quotes and backslashes.
MaxStrings == 5
CodecStrings ==
    << <<"a", "m", "n", "e", "z", "i", "a", "-", "a", "w", "g", "2">>,
       <<"[", "P", "e", "e", "r", "]", "\n", "K", "e", "y", " ", "=", " ", "a", "G", "k", "=", "\n">>,
       <<"1", ".", "1", ".", "1", ".", "1">>,
       <<>>,
       <<"s", "a", "y", " ", "\"", "h", "i", "\"", " ", "\\", " ", "b", "y", "e", "/">>,
       <<"a", ",", "b", ":", " ", "{", "c", "}", " ", "[", "d", "]">> >>
CodecPorts == {0, 443, 51820}

Text(n) == CodecStrings[n]

\* The shape of AmneziaWG2ConfigGenerator._build_config_dict: last_config is
\* itself JSON text, description is present only when it is not empty.
LastConfig(s, port) ==
    JObj(<< <<Key.H1, JStr(s)>>,
            <<Key.allowed_ips, JList(<<JStr(<<"0", ".", "0", ".", "0", ".", "0", "/", "0">>), JStr(<<":", ":", "/", "0">>)>>)>>,
            <<Key.client_ip, JStr(s)>>,
            <<Key.config, JStr(Text(2) \o s)>>,
            <<Key.port, JInt(port)>> >>)

ConfigDict(s, description, port) ==
    JObj(<< <<Key.containers,
              JList(<< JObj(<< <<Key.awg,
                                 JObj(<< <<Key.H1, JStr(s)>>,
                                         <<Key.Jc, JStr(<<>>)>>,
                                         <<Key.last_config,
                                           JStr(Dumps(LastConfig(s, port), 0))>>,
                                         <<Key.port, JStr(IntToChars(port))>>,
                                         <<Key.protocol_version, JStr(<<"2">>)>> >>)>>,
                               <<Key.container, JStr(Text(1))>> >>) >>)>>,
            <<Key.defaultContainer, JStr(Text(1))>> >>
         \o (IF description = <<>> THEN <<>>
             ELSE << <<Key.description, JStr(description)>> >>)
         \o << <<Key.dns1, JStr(Text(3))>>,
               <<Key.hostName, JStr(s)>> >>)

CodecObjects ==
    {ConfigDict(Text(a), Text(b), port) :
        a \in 1..MaxStrings, b \in 1..MaxStrings, port \in CodecPorts}
        \cup {LastConfig(Text(a), port) : a \in 1..MaxStrings, port \in CodecPorts}
        \cup {JObj(<<>>), JObj(<< <<Key.allowed_ips, JList(<<>>)>>, <<Key.port, JInt(0 - 7)>> >>)}

(***************************************************************************)
(* The execution channel (ContainerConnection) on the config file.         *)
(***************************************************************************)
\* read_file: "cat <path>", and run_command strips the decoded stdout.
ReadFile(content) == Strip(content)

\* write_file: "cat > <path> <<'EOF'\n<content>\nEOF" overwrites the file
\* with the content followed by the newline that ends the here-document
\* (the tokens of this model hold no single quote, so nothing is escaped).
WriteFile(content) == content \o <<NL>>

\* "wg pubkey": the public key of a private key.
PublicKeyOf(private_key) == 200 + private_key

\* The contents of wireguard_psk.key.
PresharedKey == 900

(***************************************************************************)
(* Initial configuration files and the inputs of the operations.           *)
(***************************************************************************)
Interface(cidr, port) ==
    << Hdr("Interface"), NL, KV("Address", cidr), NL >>
        \o (IF port = 0 THEN <<>> ELSE << KV("ListenPort", <<port>>), NL >>)

Peer(pk, ip) ==
    << Hdr("Peer"), NL, KV("PublicKey", <<pk>>), NL,
       KV("PresharedKey", <<PresharedKey>>), NL,
       KV("AllowedIPs", << <<ip, 32>> >>), NL >>

Net24 == <<IPv4(10, 8, 0, 0), 24>>
Net30 == <<IPv4(10, 8, 0, 1), 30>>

InitFiles ==
    { Interface(Net24, 51820),
      Interface(Net24, 51820) \o <<NL>> \o Peer(101, IPv4(10, 8, 0, 2)),
      Interface(Net24, 51820) \o Peer(101, IPv4(10, 8, 0, 2)) \o <<NL>>
          \o Peer(102, IPv4(10, 8, 0, 3)) \o <<NL, NL>> \o Peer(101, IPv4(10, 8, 0, 4)),
      Interface(Net30, 51820),
      Interface(Net30, 51820) \o Peer(102, IPv4(10, 8, 0, 2)),
      Interface(Net24, 0),
      Interface(Net24, 51820)
          \o PeerSectionText(101, PresharedKey, <<IPv4(10, 8, 0, 2), 32>>, "telegram")
          \o PeerSectionText(102, PresharedKey, <<IPv4(10, 8, 0, 3), 32>>, "vpn") }

InitKeys == {101, 102}

\* The (app_type, allocated_ip) arguments of create_peer; <<>> is None.
CreateInputs ==
    { <<"amnezia_wg", <<>> >>,
      <<" VPN ", <<>> >>,
      <<"telegram", <<>> >>,
      <<"AmneziaWG", <<IPv4(10, 8, 0, 1), NoPrefix>> >>,
      <<"amnezia_vpn", <<IPv4(10, 8, 0, 2), 32>> >>,
      <<"wg", <<IPv4(10, 9, 0, 5), 24>> >> }

(***************************************************************************)
(* State.                                                                  *)
(***************************************************************************)
VARIABLES
    file,      \* the content of <config_path>/<interface>.conf in the container
    live,      \* the peers of the running daemon
    ops,       \* the calls of create_peer / delete_peer / get_peers, in call order
    nextKey,   \* the number of private keys "wg genkey" has produced
    fails,     \* the number of channel commands that have failed
    epoch,     \* the number of config writes and syncs executed
    file0,     \* the content of the config file before the first call
    codec,     \* one use of the link codec: object, link, result of decoding
    parser,    \* one use of the dump parser: clock, dump, records
    channel,   \* one write_file / read_file pair of the execution channel
    registry,  \* the protocol registry: declaration source and loaded definitions
    legacy     \* the "amneziawg" service: its peer rows and one delete_client call

vars == <<file, live, ops, nextKey, fails, epoch, file0, codec, parser, channel, registry,
          legacy>>

\* The state of the service, and the state outside the service.
service == <<file, live, ops, nextKey, fails, epoch, file0>>
side == <<codec, parser, channel, registry, legacy>>

CodecIdle ==
    [pc |-> "idle", obj |-> JInt(0), link |-> <<>>, tampered |-> FALSE,
     out |-> [err |-> "", val |-> JInt(0)]]

ParserIdle ==
    [pc |-> "idle", half |-> 0, zone |-> 0, src |-> <<>>, rows |-> <<>>, out |-> <<>>]

ChannelIdle ==
    [pc |-> "idle", content |-> <<>>, stored |-> <<>>, err |-> "", out |-> <<>>]

\* _protocol_config = {}: nothing read, nothing loaded, no call made.
RegistryIdle ==
    [source |-> [kind |-> "missing", protocols |-> {}], loaded |-> {},
     isLoaded |-> FALSE, reads |-> 0, implicit |-> 0, built |-> 0, calls |-> 0,
     edits |-> 0, call |-> [op |-> "", name |-> "", ret |-> "", names |-> {}]]

\* AmneziaService with no peer row and no call.
LegacyIdle == [db |-> {}, pc |-> "idle", id |-> 0, key |-> 0, base |-> <<>>, ret |-> ""]

\* The parts outside the service that take no step.
SideIdle ==
    parser = ParserIdle /\ channel = ChannelIdle /\ registry = RegistryIdle
        /\ legacy = LegacyIdle

OpIds == 1..MaxOps

IdleOp ==
    [kind |-> "none", pc |-> "idle", app |-> "", napp |-> "", req |-> <<>>,
     key |-> 0, priv |-> 0, pub |-> 0, net |-> <<>>, ip |-> <<>>, port |-> 0,
     base |-> <<>>, psk |-> 0, ret |-> "", sent |-> <<>>, after |-> {},
     e0 |-> 0 - 1, e1 |-> 0 - 1, we |-> 0 - 1, peers |-> <<>>]

Returned(i) == ops[i].pc \in {"done", "failed"}

Init ==
    /\ file \in InitFiles
    /\ file0 = file
    /\ live = SyncedPeers(file)
    /\ ops = [i \in OpIds |-> IdleOp]
    /\ nextKey = 0
    /\ fails = 0
    /\ epoch = 0
    /\ codec = CodecIdle
    /\ SideIdle

CanCall(i) == ops[i].pc = "idle" /\ (IF i = 1 THEN TRUE ELSE ops[i - 1].pc # "idle")

Sent(i, cmd) == Append(ops[i].sent, cmd)

(***************************************************************************)
(* create_peer, one action per awaited channel command.                    *)
(***************************************************************************)
\* The call: _normalize_app_type runs before the first command.
CallCreate(i, app_type, allocated_ip) ==
    /\ CanCall(i)
    /\ ops' = [ops EXCEPT ![i] =
            [@ EXCEPT !.kind = "create", !.app = app_type, !.req = allocated_ip,
                      !.napp = NormalizeAppType(app_type),
                      !.after = {j \in OpIds : Returned(j)},
                      !.pc = IF NormalizeAppType(app_type) = "" THEN "failed" ELSE "genkey",
                      !.ret = IF NormalizeAppType(app_type) = "" THEN "ValueError" ELSE ""]]
    /\ UNCHANGED <<file, live, nextKey, fails, epoch, file0, side>>

\* connection.generate_private_key(): "wg genkey".
GeneratePrivateKey(i) ==
    /\ ops[i].pc = "genkey"
    /\ nextKey' = nextKey + 1
    /\ ops' = [ops EXCEPT ![i] =
            [@ EXCEPT !.priv = nextKey + 1, !.sent = Sent(i, "genkey"), !.pc = "pubkey"]]
    /\ UNCHANGED <<file, live, fails, epoch, file0, side>>

\* connection.generate_public_key(private_key), then the choice between the
\* requested address (with "/32" added when it has no "/") and allocation.
GeneratePublicKey(i) ==
    /\ ops[i].pc = "pubkey"
    /\ ops' = [ops EXCEPT ![i] =
            [@ EXCEPT !.pub = PublicKeyOf(ops[i].priv), !.sent = Sent(i, "pubkey"),
                      !.ip = IF ops[i].req = <<>> THEN <<>>
                             ELSE IF ops[i].req[2] = NoPrefix THEN <<ops[i].req[1], 32>>
                             ELSE ops[i].req,
                      !.pc = IF ops[i].req = <<>> THEN "alloc_read" ELSE "port"]]
    /\ UNCHANGED <<file, live, nextKey, fails, epoch, file0, side>>

\* _allocate_ip_address, first command: read the config and find the subnet.
AllocateReadConfig(i) ==
    /\ ops[i].pc = "alloc_read"
    /\ LET subnet == FindSubnet(ReadFile(file))
       IN  ops' = [ops EXCEPT ![i] =
               [@ EXCEPT !.sent = Sent(i, "read_config"), !.net = subnet, !.e0 = epoch,
                         !.pc = IF subnet = <<>> THEN "failed" ELSE "alloc_dump",
                         !.ret = IF subnet = <<>> THEN "ValueError" ELSE ""]]
    /\ UNCHANGED <<file, live, nextKey, fails, epoch, file0, side>>

\* A faulty second command that registers the address it picks with the
\* daemon; C8_AllocationHasNoEffect fails with it.
AllocateReadDump_Reserving(i) ==
    /\ ops[i].pc = "alloc_dump"
    /\ LET ip == AllocateIpAddress(ops[i].net, ParseWgDump(DumpRows(live), 0, 0))
       IN  /\ ops' = [ops EXCEPT ![i] =
                  [@ EXCEPT !.sent = Sent(i, "dump"), !.ip = ip, !.e1 = epoch,
                            !.pc = IF ip = <<>> THEN "failed" ELSE "port",
                            !.ret = IF ip = <<>> THEN "ValueError" ELSE ""]]
           /\ live' = IF ip = <<>> THEN live
                      ELSE Append(live, [pk |-> ops[i].pub, ips |-> <<ip>>])
    /\ UNCHANGED <<file, nextKey, fails, epoch, file0, side>>

\* _allocate_ip_address, second command: read the dump and pick the address.
AllocateReadDump(i) ==
    /\ ops[i].pc = "alloc_dump"
    /\ LET ip == AllocateIpAddress(ops[i].net, ParseWgDump(DumpRows(live), 0, 0))
       IN  ops' = [ops EXCEPT ![i] =
               [@ EXCEPT !.sent = Sent(i, "dump"), !.ip = ip, !.e1 = epoch,
                         !.pc = IF ip = <<>> THEN "failed" ELSE "port",
                         !.ret = IF ip = <<>> THEN "ValueError" ELSE ""]]
    /\ UNCHANGED <<file, live, nextKey, fails, epoch, file0, side>>

\* A faulty _get_server_port that goes on with port 51820 when the config
\* has no ListenPort; C14_NoListenPortFailsEarly fails with it.
GetServerPort_DefaultPort(i) ==
    /\ ops[i].pc = "port"
    /\ LET port == FindListenPort(ReadFile(file))
       IN  ops' = [ops EXCEPT ![i] =
               [@ EXCEPT !.sent = Sent(i, "read_config"),
                         !.port = IF port = 0 THEN 51820 ELSE port,
                         !.pc = "add_read"]]
    /\ UNCHANGED <<file, live, nextKey, fails, epoch, file0, side>>

\* _get_server_port.
GetServerPort(i) ==
    /\ ops[i].pc = "port"
    /\ LET port == FindListenPort(ReadFile(file))
       IN  ops' = [ops EXCEPT ![i] =
               [@ EXCEPT !.sent = Sent(i, "read_config"), !.port = port,
                         !.pc = IF port = 0 THEN "failed" ELSE "add_read",
                         !.ret = IF port = 0 THEN "ValueError" ELSE ""]]
    /\ UNCHANGED <<file, live, nextKey, fails, epoch, file0, side>>

\* _add_peer_to_config: read the config, ...
AddReadConfig(i) ==
    /\ ops[i].pc = "add_read"
    /\ ops' = [ops EXCEPT ![i] =
            [@ EXCEPT !.sent = Sent(i, "read_config"), !.base = ReadFile(file),
                      !.pc = "add_psk"]]
    /\ UNCHANGED <<file, live, nextKey, fails, epoch, file0, side>>

\* ... read the preshared key, ...
AddReadPsk(i) ==
    /\ ops[i].pc = "add_psk"
    /\ ops' = [ops EXCEPT ![i] =
            [@ EXCEPT !.sent = Sent(i, "read_psk"), !.psk = PresharedKey, !.pc = "add_write"]]
    /\ UNCHANGED <<file, live, nextKey, fails, epoch, file0, side>>

\* A faulty write that appends to the file as it is at the write;
\* C3_LastWriterWins fails with it.
AddedConfig_Reread(i) ==
    ReadFile(file) \o PeerSectionText(ops[i].pub, ops[i].psk, ops[i].ip, ops[i].napp)

\* ... and write the config that was read with the peer section appended.
AddedConfig(i) ==
    ops[i].base \o PeerSectionText(ops[i].pub, ops[i].psk, ops[i].ip, ops[i].napp)

AddWriteConfig(i) ==
    /\ ops[i].pc = "add_write"
    /\ file' = WriteFile(AddedConfig(i))
    /\ epoch' = epoch + 1
    /\ ops' = [ops EXCEPT ![i] =
            [@ EXCEPT !.sent = Sent(i, "write_config"), !.we = epoch, !.pc = "sync"]]
    /\ UNCHANGED <<live, nextKey, fails, file0, side>>

\* A faulty sync that leaves the daemon as it was; C10_FirstTwoAddresses
\* fails with it.
SyncConfig_NoReload(i) ==
    /\ ops[i].pc = "sync"
    /\ epoch' = epoch + 1
    /\ ops' = [ops EXCEPT ![i] =
            [@ EXCEPT !.sent = Sent(i, "sync"),
                      !.pc = IF ops[i].kind = "create" THEN "payload_key" ELSE "done",
                      !.ret = IF ops[i].kind = "create" THEN "" ELSE "true"]]
    /\ UNCHANGED <<file, live, nextKey, fails, file0, side>>

\* A faulty sync that loads the text its own call wrote instead of the file;
\* C30_QuiescentLiveEqualsConfig fails with it.
SyncConfig_OwnWrite(i) ==
    /\ ops[i].pc = "sync"
    /\ live' = SyncedPeers(IF ops[i].kind = "create" THEN AddedConfig(i)
                           ELSE RemovePeerFromRawConfig(ops[i].base, ops[i].key))
    /\ epoch' = epoch + 1
    /\ ops' = [ops EXCEPT ![i] =
            [@ EXCEPT !.sent = Sent(i, "sync"),
                      !.pc = IF ops[i].kind = "create" THEN "payload_key" ELSE "done",
                      !.ret = IF ops[i].kind = "create" THEN "" ELSE "true"]]
    /\ UNCHANGED <<file, nextKey, fails, file0, side>>

\* connection.sync_config(), of create_peer and of delete_peer.
SyncConfig(i) ==
    /\ ops[i].pc = "sync"
    /\ live' = SyncedPeers(file)
    /\ epoch' = epoch + 1
    /\ ops' = [ops EXCEPT ![i] =
            [@ EXCEPT !.sent = Sent(i, "sync"),
                      !.pc = IF ops[i].kind = "create" THEN "payload_key" ELSE "done",
                      !.ret = IF ops[i].kind = "create" THEN "" ELSE "true"]]
    /\ UNCHANGED <<file, nextKey, fails, file0, side>>

\* _generate_config_payload: the server public key, the preshared key and
\* the config are read, then the payload is built and create_peer returns.
PayloadReadServerKey(i) ==
    /\ ops[i].pc = "payload_key"
    /\ ops' = [ops EXCEPT ![i] =
            [@ EXCEPT !.sent = Sent(i, "read_server_key"), !.pc = "payload_psk"]]
    /\ UNCHANGED <<file, live, nextKey, fails, epoch, file0, side>>

PayloadReadPsk(i) ==
    /\ ops[i].pc = "payload_psk"
    /\ ops' = [ops EXCEPT ![i] =
            [@ EXCEPT !.sent = Sent(i, "read_psk"), !.pc = "payload_config"]]
    /\ UNCHANGED <<file, live, nextKey, fails, epoch, file0, side>>

PayloadReadConfig(i) ==
    /\ ops[i].pc = "payload_config"
    /\ ops' = [ops EXCEPT ![i] =
            [@ EXCEPT !.sent = Sent(i, "read_config"), !.pc = "done", !.ret = "ok"]]
    /\ UNCHANGED <<file, live, nextKey, fails, epoch, file0, side>>

(***************************************************************************)
(* delete_peer.                                                            *)
(***************************************************************************)
CallDelete(i, public_key) ==
    /\ CanCall(i)
    /\ ops' = [ops EXCEPT ![i] =
            [@ EXCEPT !.kind = "delete", !.key = public_key,
                      !.after = {j \in OpIds : Returned(j)}, !.pc = "del_read"]]
    /\ UNCHANGED <<file, live, nextKey, fails, epoch, file0, side>>

\* A faulty delete that goes on to the write whatever the removal gave;
\* C4_DeleteAbsentIsNoOp fails with it.
DeleteReadConfig_AlwaysWrites(i) ==
    /\ ops[i].pc = "del_read"
    /\ ops' = [ops EXCEPT ![i] =
            [@ EXCEPT !.sent = Sent(i, "read_config"), !.base = ReadFile(file),
                      !.pc = "del_write"]]
    /\ UNCHANGED <<file, live, nextKey, fails, epoch, file0, side>>

\* Read the config and cut the sections; return False when nothing changed.
DeleteReadConfig(i) ==
    /\ ops[i].pc = "del_read"
    /\ LET wg_config == ReadFile(file)
           updated_config == RemovePeerFromRawConfig(wg_config, ops[i].key)
       IN  ops' = [ops EXCEPT ![i] =
               [@ EXCEPT !.sent = Sent(i, "read_config"), !.base = wg_config,
                         !.pc = IF updated_config = wg_config THEN "done" ELSE "del_write",
                         !.ret = IF updated_config = wg_config THEN "false" ELSE ""]]
    /\ UNCHANGED <<file, live, nextKey, fails, epoch, file0, side>>

DeleteWriteConfig(i) ==
    /\ ops[i].pc = "del_write"
    /\ file' = WriteFile(RemovePeerFromRawConfig(ops[i].base, ops[i].key))
    /\ epoch' = epoch + 1
    /\ ops' = [ops EXCEPT ![i] =
            [@ EXCEPT !.sent = Sent(i, "write_config"), !.we = epoch, !.pc = "sync"]]
    /\ UNCHANGED <<live, nextKey, fails, file0, side>>

(***************************************************************************)
(* get_peers.                                                              *)
(***************************************************************************)
\* AmneziaWG2Service._resolve_default_app_type without a configured default.
DefaultAppType == "amnezia_wg"

\* A faulty extraction that gives every peer the default type;
\* C23_ListedAppType fails with it.
ExtractPeerAppTypes_AlwaysDefault(wg_config) ==
    LET sections == PeerSections(wg_config)
        text(n) == Slice(wg_config, sections[n][1], sections[n][2])
    IN  [pk \in {SectionKey(text(n))[1] :
                    n \in {m \in 1..Len(sections) : SectionKey(text(m)) # <<>>}} |->
            DefaultAppType]

\* AmneziaWG2Service._extract_peer_app_types: for every peer section with a
\* PublicKey line, the normalised value of its first "AppType = <value>"
\* line, commented or not, or the default; a later section of the same key
\* replaces an earlier one.
ExtractPeerAppTypes(wg_config) ==
    LET sections == PeerSections(wg_config)
        text(n) == Slice(wg_config, sections[n][1], sections[n][2])
        keyed == {n \in 1..Len(sections) : SectionKey(text(n)) # <<>>}
        app(s) ==
            LET hits == {i \in 1..Len(s) : s[i].t \in {"kv", "cmt"} /\ s[i].k = "AppType"}
            IN  IF hits = {} THEN DefaultAppType
                ELSE IF NormalizeAppType(s[Min(hits)].v[1]) = "" THEN DefaultAppType
                ELSE NormalizeAppType(s[Min(hits)].v[1])
    IN  [pk \in {SectionKey(text(n))[1] : n \in keyed} |->
            app(text(Max({n \in keyed : SectionKey(text(n))[1] = pk})))]

CallList(i) ==
    /\ CanCall(i)
    /\ ops' = [ops EXCEPT ![i] =
            [@ EXCEPT !.kind = "list", !.after = {j \in OpIds : Returned(j)},
                      !.pc = "list_dump"]]
    /\ UNCHANGED <<file, live, nextKey, fails, epoch, file0, side>>

\* get_peers_dump and _parse_wg_dump.
ListReadDump(i) ==
    /\ ops[i].pc = "list_dump"
    /\ ops' = [ops EXCEPT ![i] =
            [@ EXCEPT !.sent = Sent(i, "dump"), !.e0 = epoch,
                      !.peers = ParseWgDump(DumpRows(live), 0, 0), !.pc = "list_read"]]
    /\ UNCHANGED <<file, live, nextKey, fails, epoch, file0, side>>

\* read_protocol_config, _extract_peer_app_types, and one record per peer of
\* the parsed dump.
ListReadConfig(i) ==
    /\ ops[i].pc = "list_read"
    /\ LET wg_config == ReadFile(file)
           app_types_by_public_key == ExtractPeerAppTypes(wg_config)
           peers_data == ops[i].peers
       IN  ops' = [ops EXCEPT ![i] =
               [@ EXCEPT !.sent = Sent(i, "read_config"), !.e1 = epoch, !.base = wg_config,
                         !.peers = [public_key \in DOMAIN peers_data |->
                            [app_type |->
                                IF public_key \in DOMAIN app_types_by_public_key
                                THEN app_types_by_public_key[public_key]
                                ELSE DefaultAppType,
                             endpoint |-> peers_data[public_key].endpoint,
                             allowed_ips |-> peers_data[public_key].allowed_ips,
                             last_handshake |-> peers_data[public_key].last_handshake,
                             rx_bytes |-> peers_data[public_key].rx_bytes,
                             tx_bytes |-> peers_data[public_key].tx_bytes,
                             online |-> peers_data[public_key].online,
                             persistent_keepalive |->
                                peers_data[public_key].persistent_keepalive]],
                         !.pc = "done", !.ret = "listed"]]
    /\ UNCHANGED <<file, live, nextKey, fails, epoch, file0, side>>

(***************************************************************************)
(* run_command raising DockerError: the container is unreachable or the    *)
(* command exits non-zero.  The operation ends with the error.             *)
(***************************************************************************)
CommandOf(pc) ==
    CASE pc = "genkey" -> "genkey"
      [] pc = "pubkey" -> "pubkey"
      [] pc \in {"alloc_read", "port", "add_read", "payload_config", "del_read",
                  "list_read"} -> "read_config"
      [] pc \in {"alloc_dump", "list_dump"} -> "dump"
      [] pc \in {"add_psk", "payload_psk"} -> "read_psk"
      [] pc \in {"add_write", "del_write"} -> "write_config"
      [] pc = "sync" -> "sync"
      [] pc = "payload_key" -> "read_server_key"
      [] OTHER -> ""

\* A faulty failure handling that sends the failed command again;
\* C22_NoRetryAfterFailure fails with it.
CommandFails_Retries(i) ==
    /\ CommandOf(ops[i].pc) # ""
    /\ fails < MaxFailures
    /\ fails' = fails + 1
    /\ ops' = [ops EXCEPT ![i] = [@ EXCEPT !.sent = Sent(i, CommandOf(ops[i].pc))]]
    /\ UNCHANGED <<file, live, nextKey, epoch, file0, side>>

CommandFails(i) ==
    /\ CommandOf(ops[i].pc) # ""
    /\ fails < MaxFailures
    /\ fails' = fails + 1
    /\ ops' = [ops EXCEPT ![i] =
            [@ EXCEPT !.sent = Sent(i, CommandOf(ops[i].pc)), !.pc = "failed",
                      !.ret = "DockerError"]]
    /\ UNCHANGED <<file, live, nextKey, epoch, file0, side>>

DeleteKeys == InitKeys \cup {ops[j].pub : j \in {n \in OpIds : ops[n].pub # 0}}

Next ==
    \/ \E i \in OpIds, in \in CreateInputs : CallCreate(i, in[1], in[2])
    \/ \E i \in OpIds : GeneratePrivateKey(i)
    \/ \E i \in OpIds : GeneratePublicKey(i)
    \/ \E i \in OpIds : AllocateReadConfig(i)
    \/ \E i \in OpIds : AllocateReadDump(i)
    \/ \E i \in OpIds : GetServerPort(i)
    \/ \E i \in OpIds : AddReadConfig(i)
    \/ \E i \in OpIds : AddReadPsk(i)
    \/ \E i \in OpIds : AddWriteConfig(i)
    \/ \E i \in OpIds : SyncConfig(i)
    \/ \E i \in OpIds : PayloadReadServerKey(i)
    \/ \E i \in OpIds : PayloadReadPsk(i)
    \/ \E i \in OpIds : PayloadReadConfig(i)
    \/ \E i \in OpIds, k \in DeleteKeys : CallDelete(i, k)
    \/ \E i \in OpIds : DeleteReadConfig(i)
    \/ \E i \in OpIds : DeleteWriteConfig(i)
    \/ \E i \in OpIds : CallList(i)
    \/ \E i \in OpIds : ListReadDump(i)
    \/ \E i \in OpIds : ListReadConfig(i)
    \/ \E i \in OpIds : CommandFails(i)

Spec == Init /\ [][Next]_vars

(***************************************************************************)
(* One use of the codec: a config object is encoded, the length header of  *)
(* the link may be replaced, and the link is decoded.                      *)
(***************************************************************************)
MaxTamper == 2

InitCodec ==
    /\ file = Interface(Net24, 51820)
    /\ file0 = file
    /\ live = <<>>
    /\ ops = [i \in OpIds |-> IdleOp]
    /\ nextKey = 0
    /\ fails = 0
    /\ epoch = 0
    /\ \E obj \in CodecObjects : codec = [CodecIdle EXCEPT !.pc = "new", !.obj = obj]
    /\ SideIdle

CodecEncode ==
    /\ codec.pc = "new"
    /\ codec' = [codec EXCEPT !.pc = "encoded", !.link = CreateVpnLink(codec.obj)]
    /\ UNCHANGED <<service, parser, channel, registry, legacy>>

\* The bytes of a link, and the link with its 4-byte length header replaced.
LinkBytes(link) == UrlSafeB64Decode(RemoveAll(link, Scheme) \o <<"=", "=">>).data
WithHeader(link, n) ==
    LinkOf(PackUInt32(n), SubSeq(LinkBytes(link), 5, Len(LinkBytes(link))))

CodecTamper(d) ==
    /\ codec.pc = "encoded"
    /\ d # 0
    /\ UnpackUInt32(LinkBytes(codec.link)) + d >= 0
    /\ codec' = [codec EXCEPT !.pc = "tampered", !.tampered = TRUE,
                    !.link = WithHeader(codec.link, UnpackUInt32(LinkBytes(codec.link)) + d)]
    /\ UNCHANGED <<service, parser, channel, registry, legacy>>

CodecDecode ==
    /\ codec.pc \in {"encoded", "tampered"}
    /\ codec' = [codec EXCEPT !.pc = "decoded", !.out = DecodeVpnLink(codec.link)]
    /\ UNCHANGED <<service, parser, channel, registry, legacy>>

NextCodec ==
    \/ CodecEncode
    \/ \E d \in (0 - MaxTamper)..MaxTamper : CodecTamper(d)
    \/ CodecDecode

SpecCodec == InitCodec /\ [][NextCodec]_vars

(***************************************************************************)
(* C1: decode_vpn_link(_create_vpn_link(C)) = C for every config object C. *)
(***************************************************************************)
C1_RoundTrip ==
    (codec.pc = "decoded" /\ ~codec.tampered) =>
        codec.out.err = "" /\ codec.out.val = codec.obj

C1_Witness ==
    /\ codec.pc = "decoded" /\ ~codec.tampered
    /\ codec.obj = ConfigDict(Text(5), Text(2), 51820)
    /\ codec.out.val = codec.obj

(***************************************************************************)
(* C2: decoding a link whose length header differs from the length of the  *)
(* decompressed body (body intact) raises ValueError and returns no        *)
(* object.                                                                 *)
(***************************************************************************)
C2_TamperedHeaderRejected ==
    (codec.pc = "decoded" /\ codec.tampered) => codec.out.err = "ValueError"

C2_Witness ==
    /\ codec.pc = "decoded" /\ codec.tampered
    /\ codec.out.err = "ValueError"
    /\ UnpackUInt32(LinkBytes(codec.link)) < Len(Dumps(codec.obj, 0))
    /\ Len(Dumps(codec.obj, 0)) > 100

(***************************************************************************)
(* Sections of a config text, as the daemon reads them: a block runs from  *)
(* a section header to just before the next header, without the blank      *)
(* lines around it.                                                        *)
(***************************************************************************)
RECURSIVE BlocksFrom(_, _)
BlocksFrom(text, i) ==
    LET hs == {h \in i..Len(text) : text[h].t = "hdr"}
    IN  IF hs = {} THEN <<>>
        ELSE LET h == Min(hs)
                 nx == {n \in (h + 1)..Len(text) : text[n].t = "hdr"}
                 e == IF nx = {} THEN Len(text) ELSE Min(nx) - 1
             IN  <<Strip(SubSeq(text, h, e))>> \o BlocksFrom(text, e + 1)

Blocks(text) == BlocksFrom(text, 1)

IsPeerBlockOf(b, k) ==
    /\ b[1] = Hdr("Peer")
    /\ \E n \in 1..Len(b) : b[n] = KV("PublicKey", <<k>>)

KeyBlocks(text, k) == {n \in 1..Len(Blocks(text)) : IsPeerBlockOf(Blocks(text)[n], k)}
HasKeyBlock(text, k) == KeyBlocks(text, k) # {}

RECURSIVE Without(_, _)
Without(blocks, k) ==
    IF blocks = <<>> THEN <<>>
    ELSE IF IsPeerBlockOf(Head(blocks), k) THEN Without(Tail(blocks), k)
    ELSE <<Head(blocks)>> \o Without(Tail(blocks), k)

\* No operation other than i and j overlaps the span from the call of i to
\* the return of j.
Alone(i, j) ==
    \A n \in OpIds \ {i, j} :
        ops[n].pc = "idle" \/ n \in ops[i].after \/ j \in ops[n].after

Succeeded(i) == ops[i].pc = "done" /\ ops[i].ret \in {"ok", "true"}

(***************************************************************************)
(* C4: delete_peer(K) on a config with no [Peer] section whose PublicKey   *)
(* is K returns False without raising, sends no write and no sync, and     *)
(* leaves the file and the daemon as they were; a second delete_peer(K)    *)
(* right after a successful one returns False.                             *)
(***************************************************************************)
C4_ReadOfAbsentKey(i) ==
    /\ ops[i].pc = "del_read"
    /\ ops'[i].pc # "del_read"
    /\ ops'[i].ret # "DockerError"
    /\ ~HasKeyBlock(file, ops[i].key)

C4_SecondDelete(i, j) ==
    /\ ops[i].kind = "delete" /\ ops[i].ret = "true"
    /\ ops[j].kind = "delete" /\ ops[j].key = ops[i].key
    /\ i \in ops[j].after /\ Alone(i, j)
    /\ ops[j].pc \in {"del_write", "sync", "done"}

C4_DeleteAbsentIsNoOp ==
    /\ [][\A i \in OpIds : C4_ReadOfAbsentKey(i) =>
            /\ ops'[i].pc = "done" /\ ops'[i].ret = "false"
            /\ ops'[i].sent = <<"read_config">>
            /\ file' = file /\ live' = live /\ epoch' = epoch]_vars
    /\ [](\A i, j \in OpIds : C4_SecondDelete(i, j) =>
            ops[j].ret = "false" /\ ops[j].sent = <<"read_config">>)

C4_Witness ==
    \E i, j \in OpIds :
        /\ C4_SecondDelete(i, j) /\ ops[j].ret = "false"
        /\ file = WriteFile(Strip(file))
        /\ \E n \in 1..Len(Blocks(file)) : Blocks(file)[n][1] = Hdr("Peer")

(***************************************************************************)
(* C5: delete_peer(K) on a config with M >= 1 [Peer] sections of key K     *)
(* removes all M in one rewrite and returns True; every other section      *)
(* keeps its text and its place in the order, and no section of key K is   *)
(* left.                                                                   *)
(***************************************************************************)
C5_DeleteRemovesAll ==
    /\ [][\A i \in OpIds :
            /\ (ops[i].pc = "del_read" /\ ops'[i].pc # "del_read"
                    /\ ops'[i].ret # "DockerError" /\ HasKeyBlock(file, ops[i].key))
                => ops'[i].pc = "del_write"
            /\ (ops[i].pc = "del_write" /\ ops'[i].pc = "sync")
                => /\ Blocks(file') = Without(Blocks(ops[i].base), ops[i].key)
                   /\ ~HasKeyBlock(file', ops[i].key)]_vars
    /\ [](\A i \in OpIds : (ops[i].kind = "delete" /\ ops[i].ret = "true") =>
            /\ HasKeyBlock(ops[i].base, ops[i].key)
            /\ ops[i].sent = <<"read_config", "write_config", "sync">>)

C5_Witness ==
    \E i \in OpIds :
        /\ ops[i].kind = "delete" /\ ops[i].ret = "true"
        /\ Cardinality(KeyBlocks(ops[i].base, ops[i].key)) >= 2
        /\ ~HasKeyBlock(file, ops[i].key)
        /\ Len(Blocks(file)) = 2
        /\ Blocks(file)[2][1] = Hdr("Peer")

(***************************************************************************)
(* C3: lost update.  When two calls that both succeed have read the same   *)
(* config text and no other call overlaps them, the file holds the change  *)
(* of the call that wrote last and not the change of the other: a peer     *)
(* created by the earlier writer has no section, a key deleted by the      *)
(* earlier writer still has one.                                           *)
(***************************************************************************)
C3_Race(i, j) ==
    /\ i # j /\ Succeeded(i) /\ Succeeded(j)
    /\ ops[i].base = ops[j].base
    /\ ops[i].we < ops[j].we
    /\ Alone(i, j) /\ Alone(j, i)

ChangeInFile(i) ==
    IF ops[i].kind = "create" THEN HasKeyBlock(file, ops[i].pub)
    ELSE ~HasKeyBlock(file, ops[i].key)

C3_LastWriterWins ==
    \A i, j \in OpIds : C3_Race(i, j) =>
        /\ ChangeInFile(j)
        /\ (ops[i].kind = "create" \/ ops[j].kind = "create") => ~ChangeInFile(i)

C3_Witness ==
    \E i, j \in OpIds :
        /\ C3_Race(i, j)
        /\ ops[i].kind = "create" /\ ops[j].kind = "delete"
        /\ ~HasKeyBlock(file, ops[i].pub) /\ ~HasKeyBlock(file, ops[j].key)
        /\ HasKeyBlock(ops[j].base, ops[j].key)

(***************************************************************************)
(* C8: allocation has no side effect.  The two commands of the allocator   *)
(* change neither the file nor the daemon, and two allocations with no     *)
(* config write and no sync from the start of the first to the end of the  *)
(* second return the same address.                                         *)
(***************************************************************************)
Allocated(i) == ops[i].kind = "create" /\ ops[i].req = <<>> /\ ops[i].ip # <<>>

C8_AllocationHasNoEffect ==
    /\ [][\A i \in OpIds :
            (ops[i].pc \in {"alloc_read", "alloc_dump"} /\ ops'[i].pc # ops[i].pc)
                => file' = file /\ live' = live /\ epoch' = epoch]_vars
    /\ [](\A i, j \in OpIds :
            (Allocated(i) /\ Allocated(j) /\ ops[i].e0 = ops[j].e1 /\ ops[j].e0 = ops[i].e1)
                => ops[i].ip = ops[j].ip)

C8_Witness ==
    \E i, j \in OpIds :
        /\ i # j /\ Allocated(i) /\ Allocated(j)
        /\ ops[i].e0 = ops[j].e1 /\ ops[j].e0 = ops[i].e1
        /\ ops[i].ip = ops[j].ip
        /\ ops[i].pc = "done" /\ ops[j].pc = "port"

(***************************************************************************)
(* C9: no [Peer] section of the config has an AllowedIPs address equal to  *)
(* the network address of the interface subnet plus one.                   *)
(***************************************************************************)
ConfigAddresses(text) ==
    UNION {{text[n].v[m][1] : m \in 1..Len(text[n].v)} :
            n \in {x \in 1..Len(text) : text[x].t = "kv" /\ text[x].k = "AllowedIPs"}}

C9_ReservedNeverInConfig ==
    FindSubnet(file) # <<>> =>
        NetworkAddress(FindSubnet(file)) + 1 \notin ConfigAddresses(file)

(***************************************************************************)
(* C10: from the config "Address = 10.8.0.0/24" without peers, the first   *)
(* create_peer without a requested address returns 10.8.0.2/32 when it     *)
(* succeeds, and a second one, called after the first has returned,        *)
(* returns 10.8.0.3/32 when it succeeds (no other call overlaps them).     *)
(***************************************************************************)
C10_First(i) ==
    /\ file0 = Interface(Net24, 51820)
    /\ ops[i].after = {}
    /\ ops[i].kind = "create" /\ ops[i].req = <<>> /\ ops[i].ret = "ok"
    /\ Alone(i, i)

C10_Second(i, j) ==
    /\ C10_First(i)
    /\ ops[j].after = {i}
    /\ ops[j].kind = "create" /\ ops[j].req = <<>> /\ ops[j].ret = "ok"
    /\ Alone(i, j)

C10_FirstTwoAddresses ==
    /\ \A i \in OpIds : C10_First(i) => ops[i].ip = <<IPv4(10, 8, 0, 2), 32>>
    /\ \A i, j \in OpIds : C10_Second(i, j) => ops[j].ip = <<IPv4(10, 8, 0, 3), 32>>

C10_Witness ==
    \E i, j \in OpIds :
        /\ C10_Second(i, j)
        /\ ops[i].app = "amnezia_wg" /\ ops[j].app = "amnezia_wg"
        /\ ops[i].ip = <<IPv4(10, 8, 0, 2), 32>>
        /\ ops[j].ip = <<IPv4(10, 8, 0, 3), 32>>

(***************************************************************************)
(* C11: get_peers returns one record for every peer that has a [Peer]      *)
(* section in the config, a peer that the dump does not report included    *)
(* (with zero counters and online = FALSE).  Stated for a call that no     *)
(* other call overlaps and between whose two reads nothing was written or  *)
(* synced.                                                                 *)
(***************************************************************************)
C11_ListCoversConfig ==
    \A i \in OpIds :
        (ops[i].kind = "list" /\ ops[i].pc = "done" /\ ops[i].e0 = ops[i].e1
                /\ Alone(i, i)) =>
            \A k \in DeleteKeys : HasKeyBlock(ops[i].base, k) =>
                /\ k \in DOMAIN ops[i].peers
                /\ ops[i].peers[k].rx_bytes = 0 /\ ~ops[i].peers[k].online

(***************************************************************************)
(* C12: create_peer with an application type that is none of the           *)
(* recognised names fails with a validation error before any command is    *)
(* sent: no key is generated, nothing is written, nothing is synced.       *)
(***************************************************************************)
RecognisedAppTypes == {"amnezia_vpn", "vpn", "amnezia_wg", "wg", "amneziawg"}

C12_Unrecognised(i) ==
    ops[i].kind = "create" /\ StripLower(ops[i].app) \notin RecognisedAppTypes

C12_UnknownAppTypeRejected ==
    /\ [](\A i \in OpIds : C12_Unrecognised(i) =>
            /\ ops[i].pc = "failed" /\ ops[i].ret = "ValueError"
            /\ ops[i].sent = <<>> /\ ops[i].priv = 0)
    /\ [][\A i \in OpIds : (ops[i].pc = "idle" /\ C12_Unrecognised(i)') =>
            /\ file' = file /\ live' = live
            /\ nextKey' = nextKey /\ epoch' = epoch]_vars

C12_Witness ==
    \E i, j \in OpIds :
        /\ ops[i].kind = "create" /\ ops[i].app = "telegram" /\ ops[i].pc = "failed"
        /\ j \in ops[i].after /\ Succeeded(j) /\ ops[j].kind = "create"
        /\ ops[j].priv = nextKey

(***************************************************************************)
(* C14: create_peer on a config whose [Interface] section has no           *)
(* ListenPort fails with a ValueError before the config is changed: its    *)
(* last command is the read of _get_server_port, it sends no write and no  *)
(* sync, and the step that fails leaves the file and the daemon alone.     *)
(***************************************************************************)
C14_NoListenPort(text) ==
    \A n \in 1..Len(text) : text[n].k # "ListenPort"

C14_NoListenPortFailsEarly ==
    /\ [](\A i \in OpIds :
            (ops[i].kind = "create" /\ C14_NoListenPort(file0)) =>
                /\ ops[i].pc \notin {"add_read", "add_psk", "add_write", "sync", "done"}
                /\ \A n \in 1..Len(ops[i].sent) :
                        ops[i].sent[n] \notin {"write_config", "sync"})
    /\ [][\A i \in OpIds :
            (ops[i].pc = "port" /\ ops'[i].sent = Sent(i, "read_config")
                    /\ ops'[i].ret # "DockerError" /\ C14_NoListenPort(file)) =>
                /\ ops'[i].pc = "failed" /\ ops'[i].ret = "ValueError"
                /\ file' = file /\ live' = live /\ epoch' = epoch]_vars

C14_Witness ==
    \E i \in OpIds :
        /\ C14_NoListenPort(file0)
        /\ ops[i].kind = "create" /\ ops[i].pc = "failed" /\ ops[i].ret = "ValueError"
        /\ ops[i].ip = <<IPv4(10, 8, 0, 2), 32>> /\ ops[i].req = <<>>
        /\ ops[i].sent = <<"genkey", "pubkey", "read_config", "dump", "read_config">>
        /\ file = file0

(***************************************************************************)
(* The allocator on its own: any subnet of AllocNets, any set of peers of  *)
(* the daemon with one address each out of AllocPool.                      *)
(***************************************************************************)
MaxPrefixStep == 2
AllocNets ==
    {<<IPv4(10, 8, 0, 0), 24>>} \cup {<<IPv4(10, 8, 0, 5), 30 - n>> : n \in 0..MaxPrefixStep}
AllocPool == IPv4(10, 8, 0, 0)..IPv4(10, 8, 0, 7)

RECURSIVE PeersHolding(_)
PeersHolding(addrs) ==
    IF addrs = {} THEN <<>>
    ELSE <<[pk |-> 100 + (Min(addrs) % 256), ips |-> << <<Min(addrs), 32>> >>]>>
            \o PeersHolding(addrs \ {Min(addrs)})

InitAlloc ==
    /\ \E net \in AllocNets : file = Interface(net, 51820)
    /\ file0 = file
    /\ \E addrs \in SUBSET AllocPool : live = PeersHolding(addrs)
    /\ ops = [i \in OpIds |-> IdleOp]
    /\ nextKey = 0
    /\ fails = 0
    /\ epoch = 0
    /\ codec = CodecIdle
    /\ SideIdle

NextAlloc ==
    \/ \E i \in OpIds : CallCreate(i, "amnezia_wg", <<>>)
    \/ \E i \in OpIds : GeneratePrivateKey(i)
    \/ \E i \in OpIds : GeneratePublicKey(i)
    \/ \E i \in OpIds : AllocateReadConfig(i)
    \/ \E i \in OpIds : AllocateReadDump(i)

SpecAlloc == InitAlloc /\ [][NextAlloc]_vars

\* The addresses the daemon reports, and the addresses of a subnet that are
\* neither its network address nor its broadcast address.
LiveAddresses == {live[n].ips[1][1] : n \in 1..Len(live)}
SubnetOfFile == FindSubnet(file)
SubnetHosts ==
    LET net == NetworkAddress(SubnetOfFile)
        size == NetworkSize(SubnetOfFile)
    IN  {a \in net..(net + size - 1) : a > net /\ a < net + size - 1}
FreeHosts ==
    LET used == LiveAddresses
        reserved == NetworkAddress(SubnetOfFile) + 1
    IN  {a \in SubnetHosts : a \notin used /\ a # reserved}

AllocationDone(i) == ops[i].pc \in {"port", "failed"} /\ Len(ops[i].sent) = 4

(***************************************************************************)
(* C6: without a requested address the allocator returns "<a>/32" for the  *)
(* lowest host address a of the interface subnet that is neither reported  *)
(* by the dump nor the network address plus one.                           *)
(***************************************************************************)
C6_LowestFreeHost ==
    \A i \in OpIds : AllocationDone(i) =>
        LET free == FreeHosts
        IN  free # {} =>
                /\ ops[i].pc = "port"
                /\ ops[i].ip[1] \in free /\ ops[i].ip[2] = 32
                /\ \A a \in free : ops[i].ip[1] <= a

C6_Witness ==
    \E i \in OpIds :
        /\ AllocationDone(i) /\ ops[i].pc = "port"
        /\ ops[i].ip = <<IPv4(10, 8, 0, 5), 32>>
        /\ IPv4(10, 8, 0, 6) \in LiveAddresses
        /\ IPv4(10, 8, 0, 1) \notin LiveAddresses

(***************************************************************************)
(* C7.  K is the number of peers (each holds one address, all distinct),   *)
(* N the number of addresses of the subnet.                                *)
(***************************************************************************)
\* The claim as stated: K < N - 2 is enough for the allocation to succeed.
C7_SucceedsBelowNMinus2 ==
    \A i \in OpIds :
        (AllocationDone(i) /\ Len(live) < NetworkSize(SubnetOfFile) - 2) =>
            /\ ops[i].pc = "port"
            /\ ops[i].ip[1] \notin LiveAddresses
            /\ ops[i].ip[1] # NetworkAddress(SubnetOfFile) + 1

\* C7 as amended: with K < N - 3 the allocation succeeds and returns an
\* address that is neither used nor the reserved one.
C7_SucceedsBelowNMinus3 ==
    \A i \in OpIds :
        (AllocationDone(i) /\ Len(live) < NetworkSize(SubnetOfFile) - 3) =>
            /\ ops[i].pc = "port"
            /\ ops[i].ip[1] \notin LiveAddresses
            /\ ops[i].ip[1] # NetworkAddress(SubnetOfFile) + 1

C7_Witness ==
    \E i \in OpIds :
        /\ AllocationDone(i) /\ ops[i].pc = "port"
        /\ NetworkSize(SubnetOfFile) = 8
        /\ Len(live) = 4
        /\ LiveAddresses = IPv4(10, 8, 0, 2)..IPv4(10, 8, 0, 5)
        /\ ops[i].ip = <<IPv4(10, 8, 0, 6), 32>>

(***************************************************************************)
(* C13: create_peer without a requested address on a subnet every host of  *)
(* which is the reserved address or reported by the dump fails with a      *)
(* ValueError when the dump has been read; the failure is final (the call sends       *)
(* nothing more), and nothing is written or synced.                        *)
(***************************************************************************)
C13_ExhaustionIsTerminal ==
    /\ [][\A i \in OpIds :
            (ops[i].pc = "alloc_dump" /\ ops'[i].sent = Sent(i, "dump")
                    /\ ops'[i].ret # "DockerError" /\ FreeHosts = {}) =>
                /\ ops'[i].pc = "failed" /\ ops'[i].ret = "ValueError"
                /\ ops'[i].ip = <<>>
                /\ file' = file /\ live' = live /\ epoch' = epoch]_vars
    /\ [][\A i \in OpIds : ops[i].pc = "failed" => ops'[i] = ops[i]]_vars
    /\ [](\A i \in OpIds :
            (ops[i].pc = "failed" /\ ops[i].ret = "ValueError"
                    /\ Len(ops[i].sent) = 4) =>
                ops[i].sent = <<"genkey", "pubkey", "read_config", "dump">>)

C13_Witness ==
    \E i, j \in OpIds :
        /\ file0 = Interface(Net30, 51820)
        /\ Succeeded(i) /\ ops[i].kind = "create" /\ ops[i].ip = <<IPv4(10, 8, 0, 2), 32>>
        /\ i \in ops[j].after
        /\ ops[j].kind = "create" /\ ops[j].req = <<>>
        /\ ops[j].pc = "failed" /\ ops[j].ret = "ValueError"
        /\ ops[j].sent = <<"genkey", "pubkey", "read_config", "dump">>
        /\ file = WriteFile(AddedConfig(i))

(***************************************************************************)
(* C20: every peer that create_peer creates, with an allocated or with a   *)
(* requested address, has a single host address inside the interface       *)
(* subnet, written as "<address>/32" in the result and in the AllowedIPs   *)
(* line of the section that is written.                                    *)
(***************************************************************************)
C20_HostOfSubnet(ip) == Len(ip) = 2 /\ ip[2] = 32 /\ ip[1] \in SubnetHosts

C20_CreatedAddressIsHost ==
    /\ [](\A i \in OpIds :
            (ops[i].kind = "create" /\ Succeeded(i)) => C20_HostOfSubnet(ops[i].ip))
    /\ [][\A i \in OpIds :
            (ops[i].pc = "add_write" /\ ops'[i].pc = "sync") =>
                \E n \in 1..Len(file') :
                    /\ file'[n].t = "kv" /\ file'[n].k = "AllowedIPs"
                    /\ file'[n].v = <<ops[i].ip>>
                    /\ C20_HostOfSubnet(ops[i].ip)]_vars

(***************************************************************************)
(* The dump parser on its own: a dump of one first line and up to MaxRows  *)
(* rows as the daemon prints them (decimal numbers, "(none)" for no        *)
(* endpoint, "0" for no handshake, "off" for no keepalive, one row per     *)
(* public key), parsed at DumpNow seconds (plus half a second or not) on a *)
(* host whose local clock is a fixed number of seconds ahead of UTC.       *)
(***************************************************************************)
MaxRows == 2
DumpNow == 1000

\* What the daemon knows of a peer row: n is the number of fields printed,
\* ep = 0 is no endpoint, hs = 0 no handshake, ka = 0 no keepalive.
RowSources ==
    [n : {3}, pk : {101, 102}, ep : {0}, hs : {0}, ka : {0}]
        \cup [n : {8}, pk : {101, 102}, ep : {0, 1}, ka : {0, 25},
              hs : {0, DumpNow - (PeerOnlineThresholdSeconds + 1),
                    DumpNow - PeerOnlineThresholdSeconds,
                    DumpNow - (PeerOnlineThresholdSeconds - 1), DumpNow + 5}]
        \cup [n : {9}, pk : {101, 102}, ep : {1},
              hs : {DumpNow - (PeerOnlineThresholdSeconds - 1)}, ka : {25}]

RowText(r) ==
    SubSeq(<< r.pk, 0,
              IF r.ep = 0 THEN <<"(", "n", "o", "n", "e", ")">>
              ELSE <<"1", ".", "2", ".", "3", ".", "4", ":", "5">>,
              << <<IPv4(10, 8, 0, 2), 32>> >>,
              NatToChars(r.hs),
              NatToChars(IF r.hs = 0 THEN 0 ELSE 1500),
              NatToChars(IF r.hs = 0 THEN 0 ELSE 92),
              IF r.ka = 0 THEN <<"o", "f", "f">> ELSE NatToChars(r.ka),
              <<"x">> >>, 1, r.n)

\* The first line: the interface line, or a line that looks like a peer row.
FirstLines ==
    { DumpRows(<<>>)[1],
      RowText([n |-> 8, pk |-> 103, ep |-> 1, hs |-> DumpNow, ka |-> 25]) }

InitDump ==
    /\ file = Interface(Net24, 51820)
    /\ file0 = file
    /\ live = <<>>
    /\ ops = [i \in OpIds |-> IdleOp]
    /\ nextKey = 0
    /\ fails = 0
    /\ epoch = 0
    /\ codec = CodecIdle
    /\ channel = ChannelIdle
    /\ registry = RegistryIdle
    /\ legacy = LegacyIdle
    /\ \E first \in FirstLines, k \in 0..MaxRows, half \in {0, 1}, zone \in {0, 10800} :
         \E src \in [1..k -> RowSources] :
            /\ \A a, b \in 1..k : (a # b /\ src[a].n >= 8 /\ src[b].n >= 8) =>
                    src[a].pk # src[b].pk
            /\ parser = [pc |-> "new", half |-> half, zone |-> zone, src |-> src,
                         rows |-> <<first>> \o [a \in 1..k |-> RowText(src[a])],
                         out |-> <<>>]

\* _parse_wg_dump(dump_output); datetime.now() is the local time.
ParseDump ==
    /\ parser.pc = "new"
    /\ parser' = [parser EXCEPT
            !.pc = "parsed",
            !.out = ParseWgDump(parser.rows,
                                2 * FromTimestamp(DumpNow, parser.zone) + parser.half,
                                parser.zone)]
    /\ UNCHANGED <<service, codec, channel, registry, legacy>>

NextDump == ParseDump

SpecDump == InitDump /\ [][NextDump]_vars

\* The rows after the first line that have 8 fields or more.
FullRows == {a \in 1..Len(parser.src) : parser.src[a].n >= 8}

(***************************************************************************)
(* C18: a peer is online exactly when it has a last handshake and          *)
(* now - last handshake < threshold: a handshake threshold - 1 seconds old *)
(* is online, one threshold + 1 seconds old and one exactly threshold      *)
(* seconds old are not, and a peer whose handshake field is "0" is never   *)
(* online.                                                                 *)
(***************************************************************************)
C18_OnlineBelowThreshold ==
    parser.pc = "parsed" =>
        \A a \in FullRows :
            LET r == parser.src[a]
                rec == parser.out[r.pk]
            IN  /\ rec.online <=>
                        (r.hs # 0 /\ (2 * DumpNow + parser.half) - 2 * r.hs
                                        < 2 * PeerOnlineThresholdSeconds)
                /\ r.hs = DumpNow - (PeerOnlineThresholdSeconds - 1) => rec.online
                /\ r.hs = DumpNow - (PeerOnlineThresholdSeconds + 1) => ~rec.online
                /\ r.hs = DumpNow - PeerOnlineThresholdSeconds => ~rec.online
                /\ r.hs = 0 => (~rec.online /\ rec.last_handshake = <<>>)

C18_Witness ==
    /\ parser.pc = "parsed" /\ parser.half = 0 /\ parser.zone = 10800
    /\ Len(parser.src) = 2
    /\ parser.src[1].n = 8 /\ parser.src[1].hs = DumpNow - PeerOnlineThresholdSeconds
    /\ parser.src[2].n = 8 /\ parser.src[2].hs = DumpNow - (PeerOnlineThresholdSeconds - 1)
    /\ ~parser.out[parser.src[1].pk].online
    /\ parser.out[parser.src[2].pk].online

(***************************************************************************)
(* C19: the first line of the dump is ignored, a later row of fewer than 8 *)
(* fields is skipped, and every later row of 8 fields or more yields       *)
(* exactly one record, keyed by its public key, whose endpoint is None iff *)
(* the field is "(none)" and whose persistent_keepalive is 0 iff the field *)
(* is "off".                                                               *)
(***************************************************************************)
C19_RowHandling ==
    parser.pc = "parsed" =>
        /\ DOMAIN parser.out = {parser.src[a].pk : a \in FullRows}
        /\ \A a \in FullRows :
            LET r == parser.src[a]
                rec == parser.out[r.pk]
            IN  /\ rec.endpoint = <<>> <=> r.ep = 0
                /\ rec.endpoint # <<>> => rec.endpoint = <<RowText(r)[3]>>
                /\ rec.persistent_keepalive = 0 <=> r.ka = 0
                /\ rec.persistent_keepalive = r.ka

C19_Witness ==
    /\ parser.pc = "parsed"
    /\ parser.rows[1][1] = 103 /\ Len(parser.rows[1]) = 8
    /\ Len(parser.src) = 2
    /\ parser.src[1].n = 3 /\ parser.src[1].pk = 101
    /\ parser.src[2] = [n |-> 9, pk |-> 102, ep |-> 1,
                        hs |-> DumpNow - (PeerOnlineThresholdSeconds - 1), ka |-> 25]
    /\ DOMAIN parser.out = {102}
    /\ parser.out[102].persistent_keepalive = 25

(***************************************************************************)
(* The execution channel on its own: one write_file followed by one        *)
(* read_file of the same path.  Contents and commands are sequences of     *)
(* one-character strings.                                                  *)
(***************************************************************************)
MaxContent == 3

\* str.strip() of a text.
StripText(t) ==
    LET keep == {i \in 1..Len(t) : t[i] \notin {" ", "\n", "\t"}}
    IN  IF keep = {} THEN <<>> ELSE SubSeq(t, Min(keep), Max(keep))

\* The lines of a text that the shell reads.
SplitLines(t) ==
    LET nl == {i \in 1..Len(t) : t[i] = "\n"}
        break(k) == IF k = 0 THEN 0
                    ELSE IF k > Cardinality(nl) THEN Len(t) + 1
                    ELSE CHOOSE x \in nl : Cardinality({y \in nl : y < x}) = k - 1
    IN  [k \in 1..(Cardinality(nl) + 1) |-> SubSeq(t, break(k - 1) + 1, break(k) - 1)]

\* content.replace("'", "'\\''") of write_file.
EscapedContent(content) ==
    Flatten([i \in 1..Len(content) |->
                IF content[i] = "'" THEN <<"'", "\\", "'", "'">> ELSE <<content[i]>>])

\* sh -c "cat > <path> <<'EOF'\n<text>\nEOF": with the delimiter quoted the
\* lines up to the first line that is EOF go to the file as they are, each
\* followed by a newline; the lines after that line are run as commands,
\* which fail (the command exits with a status other than 0).
HereDocument(text) ==
    LET lines == SplitLines(text \o <<"\n", "E", "O", "F">>)
        end == Min({k \in 1..Len(lines) : lines[k] = <<"E", "O", "F">>})
    IN  [stored |-> Flatten([k \in 1..(end - 1) |-> lines[k] \o <<"\n">>]),
         err |-> IF end < Len(lines) THEN "DockerError" ELSE ""]

RECURSIVE TextsUpTo(_)
TextsUpTo(n) ==
    IF n = 0 THEN {<<>>}
    ELSE TextsUpTo(n - 1)
            \cup {Append(t, c) : t \in {u \in TextsUpTo(n - 1) : Len(u) = n - 1},
                                 c \in {"a", "'", "$", "\\", "\n"}}

\* The content argument of write_file.
ChannelContents ==
    TextsUpTo(MaxContent)
        \cup { <<"i", "t", "'", "s">>,
               <<"a", "\n", "E", "O", "F", "\n", "a">>,
               <<"K", "e", "y", " ", "=", " ", "a", "b", "+", "/", "=", "\n">> }

InitChannel ==
    /\ file = Interface(Net24, 51820)
    /\ file0 = file
    /\ live = <<>>
    /\ ops = [i \in OpIds |-> IdleOp]
    /\ nextKey = 0
    /\ fails = 0
    /\ epoch = 0
    /\ codec = CodecIdle
    /\ parser = ParserIdle
    /\ registry = RegistryIdle
    /\ legacy = LegacyIdle
    /\ \E content \in ChannelContents, old \in {<<>>, <<"o", "l", "d", "\n">>} :
            channel = [ChannelIdle EXCEPT !.pc = "new", !.content = content,
                                          !.stored = old]

\* ContainerConnection.write_file(path, content).
ChannelWriteFile ==
    /\ channel.pc = "new"
    /\ LET doc == HereDocument(EscapedContent(channel.content))
       IN  channel' = [channel EXCEPT !.pc = "written", !.stored = doc.stored,
                                      !.err = doc.err]
    /\ UNCHANGED <<service, codec, parser, registry, legacy>>

\* ContainerConnection.read_file(path): "cat <path>", stdout stripped.
ChannelReadFile ==
    /\ channel.pc = "written"
    /\ channel' = [channel EXCEPT !.pc = "read", !.out = StripText(channel.stored)]
    /\ UNCHANGED <<service, codec, parser, registry, legacy>>

NextChannel == ChannelWriteFile \/ ChannelReadFile

SpecChannel == InitChannel /\ [][NextChannel]_vars

(***************************************************************************)
(* C15: write_file(path, content) replaces the whole file and stores the   *)
(* content unmodified, whatever single quotes or other characters the      *)
(* shell treats specially it holds: write_file raises nothing, and a       *)
(* following read_file(path) returns the content up to leading and         *)
(* trailing whitespace.                                                    *)
(***************************************************************************)
C15_WriteThenReadReturnsContent ==
    /\ channel.pc \in {"written", "read"} => channel.err = ""
    /\ channel.pc = "read" => channel.out = StripText(channel.content)

(***************************************************************************)
(* The protocol registry on its own (protocol_factory).  A definition is a *)
(* record [name, enabled, cls]: enabled is "true", "false" or "absent",    *)
(* cls tells whether service_class can be imported.  The declaration       *)
(* source is missing, unreadable, or a YAML file declaring a set of        *)
(* definitions; it can be edited between two calls.                        *)
(***************************************************************************)
MaxCalls == 3
MaxEdits == 1

\* str(name).lower() on the protocol names of the model.
Lower(name) ==
    CASE name = "AmneziaWG2" -> "amneziawg2"
      [] name = "XRay" -> "xray"
      [] OTHER -> name

RegistrySources ==
    { [kind |-> "missing", protocols |-> {}],
      [kind |-> "broken", protocols |-> {}],
      [kind |-> "yaml", protocols |-> {}],
      [kind |-> "yaml", protocols |->
            { [name |-> "AmneziaWG2", enabled |-> "absent", cls |-> "ok"],
              [name |-> "xray", enabled |-> "false", cls |-> "ok"] }],
      [kind |-> "yaml", protocols |->
            { [name |-> "amneziawg2", enabled |-> "true", cls |-> "ok"],
              [name |-> "XRay", enabled |-> "true", cls |-> "missing"] }] }

\* load_protocol_config: the dict is cleared, then filled with the default
\* definition when the file does not exist, or with the definitions of the
\* file under their lower-case names; an unreadable file raises after the
\* clear.  Every load reads the source once; a load by a lazy call after a
\* completed load is counted in implicit.
LoadProtocolConfig(reg, lazy) ==
    LET src == reg.source
        defs == IF src.kind = "missing"
                THEN {[name |-> "amneziawg2", enabled |-> "true", cls |-> "ok"]}
                ELSE IF src.kind = "broken" THEN {}
                ELSE {[d EXCEPT !.name = Lower(d.name)] : d \in src.protocols}
    IN  [reg EXCEPT !.loaded = defs,
                    !.reads = @ + 1,
                    !.implicit = IF lazy /\ reg.isLoaded THEN @ + 1 ELSE @,
                    !.isLoaded = src.kind # "broken",
                    !.call = [@ EXCEPT !.ret = IF src.kind = "broken" THEN "YAMLError"
                                                ELSE ""]]

\* "if not _protocol_config: load_protocol_config()", the first statement of
\* get_available_protocols, get_protocol_config and create_protocol_service.
LazyLoad(reg) ==
    IF reg.loaded = {} THEN LoadProtocolConfig(reg, TRUE)
    ELSE [reg EXCEPT !.call = [@ EXCEPT !.ret = ""]]

\* A faulty list that does not look at the enabled flag;
\* C16_DisabledOrUnknownNeverObtained fails with it.
AvailableProtocols_All(loaded) == {d.name : d \in loaded}

\* The list of get_available_protocols: config.get("enabled", True).
AvailableProtocols(loaded) == {d.name : d \in {e \in loaded : e.enabled # "false"}}

Called(reg, op, name) ==
    [reg EXCEPT !.calls = @ + 1,
                !.call = [op |-> op, name |-> name, ret |-> "", names |-> {}]]

InitRegistry ==
    /\ file = Interface(Net24, 51820)
    /\ file0 = file
    /\ live = <<>>
    /\ ops = [i \in OpIds |-> IdleOp]
    /\ nextKey = 0
    /\ fails = 0
    /\ epoch = 0
    /\ codec = CodecIdle
    /\ parser = ParserIdle
    /\ channel = ChannelIdle
    /\ legacy = LegacyIdle
    /\ \E src \in RegistrySources : registry = [RegistryIdle EXCEPT !.source = src]

\* reload_protocol_config() / load_protocol_config().
RegistryReload ==
    /\ registry.calls < MaxCalls
    /\ LET reg == LoadProtocolConfig(Called(registry, "reload", ""), FALSE)
       IN  registry' = [reg EXCEPT !.call = [@ EXCEPT !.ret = IF @ = "" THEN "ok" ELSE @]]
    /\ UNCHANGED <<service, codec, parser, channel, legacy>>

\* get_available_protocols().
RegistryList ==
    /\ registry.calls < MaxCalls
    /\ LET reg == LazyLoad(Called(registry, "list", ""))
       IN  registry' =
               IF reg.call.ret # "" THEN reg
               ELSE [reg EXCEPT !.call = [@ EXCEPT !.ret = "ok",
                                                   !.names = AvailableProtocols(reg.loaded)]]
    /\ UNCHANGED <<service, codec, parser, channel, legacy>>

\* get_protocol_config(protocol_name); for an unknown name the error message
\* is built with get_available_protocols(), which loads again when the dict
\* is empty.
RegistryGet(name) ==
    /\ registry.calls < MaxCalls
    /\ LET reg == LazyLoad(Called(registry, "get", name))
       IN  registry' =
               IF reg.call.ret # "" THEN reg
               ELSE IF \E d \in reg.loaded : d.name = Lower(name)
               THEN [reg EXCEPT !.call = [@ EXCEPT !.ret = "ok"]]
               ELSE LET again == LazyLoad(reg)
                    IN  [again EXCEPT !.call = [@ EXCEPT !.ret =
                            IF @ = "" THEN "ValueError" ELSE @]]
    /\ UNCHANGED <<service, codec, parser, channel, legacy>>

\* create_protocol_service(protocol_name); for an unknown name the error
\* message is built with get_available_protocols(), which loads again when
\* the dict is empty.
RegistryCreate(name) ==
    /\ registry.calls < MaxCalls
    /\ LET reg == LazyLoad(Called(registry, "create", name))
           defs == {d \in reg.loaded : d.name = Lower(name)}
           def == CHOOSE d \in defs : TRUE
       IN  registry' =
               IF reg.call.ret # "" THEN reg
               ELSE IF defs = {}
               THEN LET again == LazyLoad(reg)
                    IN  [again EXCEPT !.call = [@ EXCEPT !.ret =
                            IF @ = "" THEN "ValueError" ELSE @]]
               ELSE IF def.enabled = "false" \/ def.cls # "ok"
               THEN [reg EXCEPT !.call = [@ EXCEPT !.ret = "ValueError"]]
               ELSE [reg EXCEPT !.built = @ + 1, !.call = [@ EXCEPT !.ret = "ok"]]
    /\ UNCHANGED <<service, codec, parser, channel, legacy>>

\* The declaration file is edited.
RegistryEdit(src) ==
    /\ registry.edits < MaxEdits
    /\ src # registry.source
    /\ registry' = [registry EXCEPT !.source = src, !.edits = @ + 1]
    /\ UNCHANGED <<service, codec, parser, channel, legacy>>

NextRegistry ==
    \/ RegistryReload
    \/ RegistryList
    \/ \E name \in {"AmneziaWG2", "xray", "ghost"} : RegistryGet(name)
    \/ \E name \in {"AmneziaWG2", "xray", "ghost"} : RegistryCreate(name)
    \/ \E src \in RegistrySources : RegistryEdit(src)

SpecRegistry == InitRegistry /\ [][NextRegistry]_vars

(***************************************************************************)
(* C16: a protocol that is unknown or whose definition has enabled = false *)
(* is never obtained: create_protocol_service fails with a ValueError (or  *)
(* with the error of reading the source, when the call had to load and the *)
(* source could not be read) and constructs no service; and                *)
(* get_available_protocols returns exactly the lower-case names of the     *)
(* loaded definitions whose enabled flag is true or absent.                *)
(***************************************************************************)
C16_DisabledOrUnknownNeverObtained ==
    /\ [][(registry'.calls = registry.calls + 1 /\ registry'.call.op = "create") =>
            LET known == {d \in registry'.loaded :
                            d.name \in {"amneziawg2", "xray", "ghost"}
                            /\ registry'.call.name \in
                                IF d.name = "amneziawg2" THEN {"AmneziaWG2", "amneziawg2"}
                                ELSE IF d.name = "xray" THEN {"XRay", "xray"}
                                ELSE {"ghost"}}
            IN  (known = {} \/ \E d \in known : d.enabled = "false") =>
                    /\ registry'.built = registry.built
                    /\ registry'.call.ret # "ok"
                    /\ registry'.call.ret = "ValueError" \/ registry.source.kind = "broken"]_vars
    /\ []((registry.call.op = "list" /\ registry.call.ret = "ok") =>
            /\ registry.call.names =
                    {d.name : d \in {e \in registry.loaded : e.enabled \in {"true", "absent"}}}
            /\ registry.call.names \subseteq {"amneziawg2", "xray"})

C16_Witness ==
    /\ registry.call = [op |-> "list", name |-> "", ret |-> "ok", names |-> {"amneziawg2"}]
    /\ [name |-> "xray", enabled |-> "false", cls |-> "ok"] \in registry.loaded
    /\ registry.calls = 3 /\ registry.built = 1 /\ registry.reads = 1

(***************************************************************************)
(* C17: once a load has completed, get_protocol_config,                    *)
(* get_available_protocols and create_protocol_service answer from the     *)
(* loaded definitions and do not read the declaration source again until   *)
(* reload_protocol_config is called, whatever the loaded set is, the empty *)
(* set of a source that declares no protocols included.                    *)
(***************************************************************************)
C17_NoRereadUntilReload == registry.implicit = 0

(***************************************************************************)
(* C21: a successful create_peer appends exactly one [Peer] section at the *)
(* end of the config (AppType comment with the normalised type, the        *)
(* returned public key, the preshared key, the returned address) and       *)
(* leaves the text that was in the file unchanged; the sync is sent only   *)
(* after the write, and the result is returned only after the sync.  The   *)
(* text in the file is the text the call read, blank lines at its end      *)
(* aside; a write of another call between that read and the write is the   *)
(* race of C3.                                                             *)
(***************************************************************************)
C21_Section(i) ==
    << Hdr("Peer"), NL,
       Cmt("AppType", <<IF StripLower(ops[i].app) \in {"amnezia_vpn", "vpn"}
                        THEN "amnezia_vpn" ELSE "amnezia_wg">>), NL,
       KV("PublicKey", <<ops[i].pub>>), NL,
       KV("PresharedKey", <<PresharedKey>>), NL,
       KV("AllowedIPs", <<ops[i].ip>>) >>

C21_Count(i, cmd) == Cardinality({n \in 1..Len(ops[i].sent) : ops[i].sent[n] = cmd})

C21_CreateAppendsOneSection ==
    /\ [][\A i \in OpIds :
            (ops[i].kind = "create" /\ ops[i].pc = "add_write" /\ ops'[i].pc = "sync") =>
                /\ Blocks(file') = Blocks(ops[i].base) \o <<C21_Section(i)>>
                /\ file' = ops[i].base \o <<NL>> \o C21_Section(i) \o <<NL, NL>>
                /\ ops[i].base = ReadFile(file) =>
                        ReadFile(file') = ReadFile(file) \o <<NL>> \o C21_Section(i)]_vars
    /\ [](\A i \in OpIds :
            (ops[i].kind = "create" /\ Succeeded(i)) =>
                /\ C21_Count(i, "write_config") = 1 /\ C21_Count(i, "sync") = 1
                /\ \E n \in 1..(Len(ops[i].sent) - 1) :
                        /\ ops[i].sent[n] = "write_config"
                        /\ ops[i].sent[n + 1] = "sync")
    /\ [][\A i \in OpIds :
            (ops[i].kind = "create" /\ ops'[i].pc = "done" /\ ops[i].pc # "done") =>
                C21_Count(i, "sync") = 1]_vars

C21_Witness ==
    \E i \in OpIds :
        /\ ops[i].kind = "create" /\ Succeeded(i) /\ ops[i].app = " VPN "
        /\ file0 = Interface(Net24, 51820) \o <<NL>> \o Peer(101, IPv4(10, 8, 0, 2))
        /\ file = file0 \o C21_Section(i) \o <<NL, NL>>
        /\ ops[i].ip = <<IPv4(10, 8, 0, 3), 32>>

(***************************************************************************)
(* C22: no automatic retry.  When a channel command of create_peer or      *)
(* delete_peer fails, the call ends by raising DockerError: the failed     *)
(* command is the last one the call sends, so no command is sent a second  *)
(* time and no later step (write, sync, payload) is executed.              *)
(***************************************************************************)
C22_NoRetryAfterFailure ==
    /\ [][fails' = fails + 1 =>
            \E i \in OpIds :
                /\ ops[i].pc \notin {"idle", "done", "failed"}
                /\ ops'[i].sent = Append(ops[i].sent, CommandOf(ops[i].pc))
                /\ ops'[i].pc = "failed" /\ ops'[i].ret = "DockerError"
                /\ \A j \in OpIds \ {i} : ops'[j] = ops[j]
                /\ file' = file /\ live' = live /\ epoch' = epoch]_vars
    /\ [][\A i \in OpIds : ops[i].ret = "DockerError" => ops'[i] = ops[i]]_vars
    /\ [](\A i \in OpIds : ops[i].ret = "DockerError" => ops[i].pc = "failed")

C22_Witness ==
    \E i, j \in OpIds :
        /\ ops[i].kind = "create" /\ ops[i].ret = "DockerError"
        /\ ops[i].sent = <<"genkey", "pubkey", "read_config", "dump", "read_config",
                           "read_config", "read_psk", "write_config">>
        /\ file = file0
        /\ i \in ops[j].after /\ ops[j].kind = "delete" /\ ops[j].pc = "done"

(***************************************************************************)
(* C23: for every peer that get_peers returns, app_type is the normalised  *)
(* value of the "# AppType = <value>" line of the [Peer] section with the  *)
(* same public key in the config that was read, or the default when that   *)
(* section has no such line, has an unrecognised value, or does not exist; *)
(* so a peer created by create_peer(app_type) whose section is in that     *)
(* config is listed with the normalised app_type.                          *)
(***************************************************************************)
C23_Normalised(value) ==
    IF value \in {"amnezia_vpn", "vpn", " VPN "} THEN "amnezia_vpn" ELSE "amnezia_wg"

C23_Annotated(text, k) ==
    LET b == Blocks(text)[Max(KeyBlocks(text, k))]
        notes == {n \in 1..Len(b) : b[n].t = "cmt" /\ b[n].k = "AppType"}
    IN  IF notes = {} THEN "amnezia_wg" ELSE C23_Normalised(b[Min(notes)].v[1])

C23_ListedAppType ==
    \A i \in OpIds :
        (ops[i].kind = "list" /\ ops[i].pc = "done") =>
            /\ \A k \in DOMAIN ops[i].peers :
                    ops[i].peers[k].app_type =
                        IF HasKeyBlock(ops[i].base, k) THEN C23_Annotated(ops[i].base, k)
                        ELSE "amnezia_wg"
            /\ \A j \in OpIds :
                    (ops[j].kind = "create" /\ ops[j].pub \in DOMAIN ops[i].peers
                            /\ HasKeyBlock(ops[i].base, ops[j].pub)) =>
                        ops[i].peers[ops[j].pub].app_type = C23_Normalised(ops[j].app)

C23_Witness ==
    \E i, j \in OpIds :
        /\ ops[i].kind = "list" /\ ops[i].pc = "done"
        /\ ops[j].kind = "create" /\ ops[j].app = " VPN " /\ j \in ops[i].after
        /\ DOMAIN ops[i].peers = {101, 102, ops[j].pub}
        /\ ops[i].peers[101].app_type = "amnezia_wg"
        /\ ops[i].peers[102].app_type = "amnezia_vpn"
        /\ ops[i].peers[ops[j].pub].app_type = "amnezia_vpn"

(***************************************************************************)
(* The "amneziawg" service (AmneziaService): delete_client.  Its channel   *)
(* reads and writes files as AmneziaWG2Connection does (read_file strips   *)
(* the output, write_file ends the here-document with a newline).  The     *)
(* peer rows of the database are <<id, public key>> pairs.  The stored     *)
(* client config that _delete_config drops is outside the model; its       *)
(* failure is swallowed by the source.                                     *)
(***************************************************************************)
MaxLegacyPeers == 3
LegacyKeys == 101..(100 + MaxLegacyPeers)

\* "PublicKey\s*=\s*<key>" matches inside the line of token tok (the pattern
\* is not anchored, so a comment line matches as well).
LegacyKeyLine(tok, public_key) ==
    tok.t \in {"kv", "cmt"} /\ tok.k = "PublicKey" /\ tok.v = <<public_key>>

\* "(?=\n\[|$)" at q, flags DOTALL only: a newline followed by a line that
\* starts with "[", the end of the text, or the newline that ends the text.
LegacyStop(text, q) ==
    \/ q = Len(text) + 1
    \/ q = Len(text) /\ text[q] = NL
    \/ q < Len(text) /\ text[q] = NL /\ text[q + 1].t = "hdr"

\* re.sub(r"\[Peer\].*?PublicKey\s*=\s*<key>.*?(?=\n\[|$)", "", text,
\* flags=re.DOTALL) from position pos: a match starts at the first "[Peer]"
\* that has a PublicKey line of the key anywhere after it, runs to the first
\* such line and on to the first stop; the scan goes on after the match.
RECURSIVE LegacyRemoveFrom(_, _, _)
LegacyRemoveFrom(text, public_key, pos) ==
    LET starts == {s \in pos..Len(text) :
                      /\ text[s] = Hdr("Peer")
                      /\ \E p \in (s + 1)..Len(text) : LegacyKeyLine(text[p], public_key)}
    IN  IF starts = {} THEN Slice(text, pos, Len(text) + 1)
        ELSE LET s == Min(starts)
                 p == Min({n \in (s + 1)..Len(text) : LegacyKeyLine(text[n], public_key)})
                 e == Min({q \in (p + 1)..(Len(text) + 1) : LegacyStop(text, q)})
             IN  Slice(text, pos, s) \o LegacyRemoveFrom(text, public_key, e)

LegacyRemovePeerFromConfig(wg_config, public_key) ==
    LegacyRemoveFrom(wg_config, public_key, 1)

\* AmneziaService._add_peer_to_config: the section text it appends.
LegacyPeerSection(public_key, allowed_ip) ==
    << NL, Hdr("Peer"), NL,
       KV("PublicKey", <<public_key>>), NL,
       KV("PresharedKey", <<PresharedKey>>), NL,
       KV("AllowedIPs", <<allowed_ip>>), NL >>

\* The configs after the peers of a sequence of keys were added, one by one.
RECURSIVE LegacyConfig(_)
LegacyConfig(keys) ==
    IF keys = <<>> THEN Interface(Net24, 51820)
    ELSE LegacyConfig(SubSeq(keys, 1, Len(keys) - 1))
            \o LegacyPeerSection(keys[Len(keys)],
                                 <<IPv4(10, 8, 0, 2) + (keys[Len(keys)] - 101), 32>>)

LegacyOrders ==
    {ks \in UNION {[1..n -> LegacyKeys] : n \in 0..MaxLegacyPeers} :
        \A a, b \in 1..Len(ks) : a # b => ks[a] # ks[b]}

InitLegacy ==
    /\ \E ks \in LegacyOrders :
            /\ file = LegacyConfig(ks)
            /\ legacy = [LegacyIdle EXCEPT !.db = {<<ks[n], ks[n]>> : n \in 1..Len(ks)}]
    /\ file0 = file
    /\ live = SyncedPeers(file)
    /\ ops = [i \in OpIds |-> IdleOp]
    /\ nextKey = 0
    /\ fails = 0
    /\ epoch = 0
    /\ codec = CodecIdle
    /\ parser = ParserIdle /\ channel = ChannelIdle /\ registry = RegistryIdle

LegacyFrame == UNCHANGED <<ops, nextKey, epoch, file0, codec, parser, channel, registry>>

\* delete_client(peer_id): the row is looked up; without a row the call
\* returns False.
LegacyCallDelete ==
    /\ legacy.pc \in {"idle", "done", "failed"}
    /\ \E peer_id \in LegacyKeys :
            LET rows == {r \in legacy.db : r[1] = peer_id}
            IN  IF rows = {}
                THEN legacy' = [legacy EXCEPT !.pc = "done", !.id = peer_id, !.key = 0,
                                              !.base = <<>>, !.ret = "false"]
                ELSE legacy' = [legacy EXCEPT !.pc = "read", !.id = peer_id,
                                              !.key = (CHOOSE r \in rows : TRUE)[2],
                                              !.base = <<>>, !.ret = ""]
    /\ UNCHANGED <<file, live, fails>>
    /\ LegacyFrame

\* _remove_peer_from_config: read_wg_config.
LegacyReadConfig ==
    /\ legacy.pc = "read"
    /\ legacy' = [legacy EXCEPT !.pc = "write", !.base = ReadFile(file)]
    /\ UNCHANGED <<file, live, fails>>
    /\ LegacyFrame

\* _remove_peer_from_config: re.sub and write_wg_config.
LegacyWriteConfig ==
    /\ legacy.pc = "write"
    /\ file' = WriteFile(LegacyRemovePeerFromConfig(legacy.base, legacy.key))
    /\ legacy' = [legacy EXCEPT !.pc = "sync"]
    /\ UNCHANGED <<live, fails>>
    /\ LegacyFrame

\* _delete_config, then sync_wg_config.
LegacySyncConfig ==
    /\ legacy.pc = "sync"
    /\ live' = SyncedPeers(file)
    /\ legacy' = [legacy EXCEPT !.pc = "commit"]
    /\ UNCHANGED <<file, fails>>
    /\ LegacyFrame

\* session.delete(peer), session.commit(), return True.
LegacyCommit ==
    /\ legacy.pc = "commit"
    /\ legacy' = [legacy EXCEPT !.pc = "done", !.ret = "true",
                                !.db = {r \in legacy.db : r[1] # legacy.id}]
    /\ UNCHANGED <<file, live, fails>>
    /\ LegacyFrame

\* A channel command of the call fails: rollback, the error is raised again.
LegacyCommandFails ==
    /\ legacy.pc \in {"read", "write", "sync"}
    /\ fails < MaxFailures
    /\ fails' = fails + 1
    /\ legacy' = [legacy EXCEPT !.pc = "failed", !.ret = "DockerError"]
    /\ UNCHANGED <<file, live>>
    /\ LegacyFrame

NextLegacy ==
    \/ LegacyCallDelete
    \/ LegacyReadConfig
    \/ LegacyWriteConfig
    \/ LegacySyncConfig
    \/ LegacyCommit
    \/ LegacyCommandFails

SpecLegacy == InitLegacy /\ [][NextLegacy]_vars

(***************************************************************************)
(* C24: delete_client of the "amneziawg" service removes only the [Peer]   *)
(* sections of the key of the deleted peer: the write of a delete of key K *)
(* leaves every other section of the config as it was, the [Peer] sections *)
(* before the section of K included.                                       *)
(***************************************************************************)
C24_LegacyRemovesOnlyKey ==
    [][(legacy.pc = "write" /\ legacy'.pc = "sync") =>
            Blocks(file') = Without(Blocks(file), legacy.key)]_vars

(***************************************************************************)
(* C25: the definitions of the registry are replaced only as a whole.      *)
(* After every load or reload attempt, whether it succeeds or fails on an  *)
(* unreadable source, the registry holds either the complete set it held   *)
(* before the attempt or the complete set of the source; it is never left  *)
(* empty or partial by a failed attempt.                                   *)
(***************************************************************************)
C25_SetOf(source) ==
    IF source.kind = "missing"
    THEN {[name |-> "amneziawg2", enabled |-> "true", cls |-> "ok"]}
    ELSE {[name |-> Lower(d.name), enabled |-> d.enabled, cls |-> d.cls] :
            d \in source.protocols}

C25_ReplacedAsAWhole ==
    [][registry'.reads = registry.reads + 1 =>
            \/ registry'.loaded = registry.loaded
            \/ /\ registry.source.kind # "broken"
               /\ registry'.loaded = C25_SetOf(registry.source)]_vars

(***************************************************************************)
(* C26: a create_peer that ends by raising, at whatever step, leaves no    *)
(* [Peer] section of the key it generated in the config file.              *)
(***************************************************************************)
C26_FailedCreateLeavesNoSection ==
    \A i \in OpIds :
        (ops[i].kind = "create" /\ ops[i].pc = "failed" /\ ops[i].pub # 0) =>
            ~HasKeyBlock(file, ops[i].pub)

(***************************************************************************)
(* C27: under any interleaving of create_peer calls without a requested    *)
(* address, no two calls that return successfully return the same address, *)
(* and no two [Peer] sections of the config carry the same AllowedIPs      *)
(* (the config before the calls has one section for each key).             *)
(***************************************************************************)
BlockAddresses(text) ==
    [n \in 1..Len(Blocks(text)) |->
        {tok.v : tok \in {Blocks(text)[n][m] : m \in {x \in 1..Len(Blocks(text)[n]) :
                            Blocks(text)[n][x].t = "kv"
                                /\ Blocks(text)[n][x].k = "AllowedIPs"}}}]

C27_ConcurrentCreatesDistinct ==
    (/\ \A i \in OpIds : ops[i].kind = "create" => ops[i].req = <<>>
     /\ \A k \in InitKeys : Cardinality(KeyBlocks(file0, k)) <= 1) =>
        /\ \A i, j \in OpIds :
                (i # j /\ ops[i].kind = "create" /\ ops[j].kind = "create"
                       /\ Succeeded(i) /\ Succeeded(j)) => ops[i].ip # ops[j].ip
        /\ \A a, b \in 1..Len(Blocks(file)) :
                (a # b /\ Blocks(file)[a][1] = Hdr("Peer") /\ Blocks(file)[b][1] = Hdr("Peer")) =>
                    BlockAddresses(file)[a] \cap BlockAddresses(file)[b] = {}

(***************************************************************************)
(* C29: once delete_peer(K) has returned True, no later state of the       *)
(* config file has a [Peer] section of key K, also when create_peer calls  *)
(* overlap the deletion.                                                   *)
(***************************************************************************)
C29_DeletedStaysDeleted ==
    \A i \in OpIds :
        (ops[i].kind = "delete" /\ ops[i].pc = "done" /\ ops[i].ret = "true") =>
            ~HasKeyBlock(file, ops[i].key)

(***************************************************************************)
(* C28: when the calls do not overlap and every channel command succeeds,  *)
(* after any sequence of create_peer calls without a requested address and *)
(* delete_peer calls (on a config that starts with one section for each    *)
(* key, all live) the [Peer] sections of the config have pairwise distinct *)
(* addresses, and the address freed by a delete_peer is the one the next   *)
(* create_peer returns when it is the lowest free address.                 *)
(***************************************************************************)
C28_Sequential ==
    /\ fails = 0
    /\ \A k \in InitKeys : Cardinality(KeyBlocks(file0, k)) <= 1
    /\ \A j \in OpIds :
            ops[j].pc # "idle" =>
                /\ ops[j].kind \in {"create", "delete"}
                /\ ops[j].kind = "create" => ops[j].req = <<>>
                /\ \A n \in 1..(j - 1) : n \in ops[j].after

C28_Addresses(blocks) ==
    UNION {{tok.v[1][1] : tok \in {blocks[n][m] : m \in {x \in 1..Len(blocks[n]) :
                    blocks[n][1] = Hdr("Peer") /\ blocks[n][x].t = "kv"
                        /\ blocks[n][x].k = "AllowedIPs"}}} : n \in 1..Len(blocks)}

C28_LowestFree(blocks) ==
    LET free == {a \in SubnetHosts :
                    a # NetworkAddress(SubnetOfFile) + 1 /\ a \notin C28_Addresses(blocks)}
    IN  IF free = {} THEN 0 ELSE Min(free)

C28_SequentialAddresses ==
    C28_Sequential =>
        /\ \A a, b \in 1..Len(Blocks(file)) :
                (a # b /\ Blocks(file)[a][1] = Hdr("Peer") /\ Blocks(file)[b][1] = Hdr("Peer")) =>
                    BlockAddresses(file)[a] \cap BlockAddresses(file)[b] = {}
        /\ \A i, j \in OpIds :
                (/\ j = i + 1
                 /\ ops[i].kind = "delete" /\ Succeeded(i)
                 /\ ops[j].kind = "create" /\ ops[j].ret = "ok"
                 /\ C28_LowestFree(Without(Blocks(ops[i].base), ops[i].key))
                        \in C28_Addresses(Blocks(ops[i].base))
                            \ C28_Addresses(Without(Blocks(ops[i].base), ops[i].key))) =>
                    ops[j].ip =
                        <<C28_LowestFree(Without(Blocks(ops[i].base), ops[i].key)), 32>>

C28_Witness ==
    \E i, j \in OpIds :
        /\ C28_Sequential
        /\ j = i + 1
        /\ HasKeyBlock(file0, 101) /\ HasKeyBlock(file0, 102)
        /\ ops[i].kind = "delete" /\ ops[i].key = 101 /\ Succeeded(i)
        /\ ops[j].kind = "create" /\ ops[j].ret = "ok"
        /\ ops[j].ip = <<IPv4(10, 8, 0, 2), 32>>
        /\ C28_Addresses(Blocks(file)) = {IPv4(10, 8, 0, 2), IPv4(10, 8, 0, 3)}
        /\ ~HasKeyBlock(file, 101) /\ HasKeyBlock(file, ops[j].pub)

(***************************************************************************)
(* C30: in every state with no call in flight, reached through create_peer *)
(* and delete_peer calls that all returned without raising, under any      *)
(* interleaving, the peers live in the daemon are the peers of the [Peer]  *)
(* sections of the config file: the same keys, each with the address of    *)
(* its last section.                                                       *)
(***************************************************************************)
C30_Quiescent ==
    \A i \in OpIds :
        \/ ops[i].pc = "idle"
        \/ ops[i].pc = "done" /\ ops[i].kind \in {"create", "delete"}

C30_Keys == InitKeys \cup {PublicKeyOf(n) : n \in 1..MaxOps}

C30_QuiescentLiveEqualsConfig ==
    C30_Quiescent =>
        /\ {live[n].pk : n \in 1..Len(live)} = {k \in C30_Keys : HasKeyBlock(file, k)}
        /\ \A n \in 1..Len(live) :
                /\ \A m \in 1..Len(live) : live[m].pk = live[n].pk => m = n
                /\ HasKeyBlock(file, live[n].pk) =>
                        {live[n].ips[x][1] : x \in 1..Len(live[n].ips)} =
                            C28_Addresses(<<Blocks(file)[Max(KeyBlocks(file, live[n].pk))]>>)

C30_Witness ==
    \E i, j \in OpIds :
        /\ C30_Quiescent
        /\ ops[i].kind = "create" /\ ops[j].kind = "delete"
        /\ Succeeded(i) /\ Succeeded(j)
        /\ i \notin ops[j].after /\ j \notin ops[i].after
        /\ ops[i].we < ops[j].we
        /\ ~HasKeyBlock(file, ops[i].pub) /\ ~HasKeyBlock(file, ops[j].key)
        /\ \A n \in 1..Len(live) : live[n].pk \notin {ops[i].pub, ops[j].key}

====
